---------------------------- MODULE Spec2Model ----------------------------
(***************************************************************************)
(* A model of the kernel services of ai_operator_os.py: Scheduler,         *)
(* ContextManager, MemoryManager (long-term), LLMCore, ToolAccessManager,  *)
(* EvaluationEngine and the AIOperatorOS.run path through them.            *)
(*                                                                         *)
(* Conventions                                                             *)
(*  - Python dicts are functions whose DOMAIN is the set of keys present.  *)
(*  - Task dicts are shared by reference between the queue, the completed  *)
(*    log and the callers: `tasks` is the heap of task objects and the     *)
(*    queue and the log hold object references (indices into `tasks`).     *)
(*  - datetime.now() stamps of the scheduler are call ordinals; the other  *)
(*    stamps are left out, no operation reads them.                        *)
(*  - A text is a sequence of one-character strings.                       *)
(*  - `ret` holds the last call: its name, its arguments and what it       *)
(*    returned (or that it raised).                                        *)
(*  - Variables whose names start with h_ are history variables: they      *)
(*    record the calls made so far and are read by no operation.           *)
(***************************************************************************)
EXTENDS Integers, Sequences, FiniteSets, TLC

VARIABLES
    policy,            \* Scheduler.policy
    queue,             \* Scheduler._queue      (references into tasks)
    completed,         \* Scheduler._completed  (references into tasks)
    tasks,             \* the task dicts created by submit, in creation order
    h_dispatched,      \* the task that next_task returned last, or NoTask
    window_size,       \* ContextManager.window_size
    sessions,          \* ContextManager._sessions
    h_pushed,          \* per session: the entries pushed since its last clear
    deployment_mode,   \* DataLayer.deployment_mode, or None without a data layer
    tables,            \* RelationalStore._tables
    vector_records,    \* VectorStore._records, in the dict's insertion order
    h_written,         \* per (namespace, key): the value last passed to remember_long;
                       \* per (table, id) of a bare store: the record it should hold
    providers,         \* LLMCore._providers
    default_provider,  \* LLMCore._default_provider
    h_first,           \* the name of the first register_provider call, or None
    h_last_default,    \* the name of the last one with set_default=True, or None
    roles,             \* ToolAccessManager._roles
    principals,        \* ToolAccessManager._principals
    audit_log,         \* ToolAccessManager._audit_log
    h_access,          \* the calls made on the ToolAccessManager, in order
    records,           \* EvaluationEngine._records
    pc,                \* per call in progress: its position and its locals
    ret                \* the last call and its result

\* No call is in progress between two calls of a single caller.
NoCalls == <<>>

schedVars  == <<policy, queue, completed, tasks, h_dispatched>>
ctxVars    == <<window_size, sessions, h_pushed>>
memVars    == <<deployment_mode, tables, vector_records, h_written>>
llmVars    == <<providers, default_provider, h_first, h_last_default>>
accessVars == <<roles, principals, audit_log, h_access>>
evalVars   == <<records>>
vars == <<policy, queue, completed, tasks, h_dispatched, window_size, sessions, h_pushed,
          deployment_mode, tables, vector_records, h_written, providers, default_provider, h_first, h_last_default,
          roles, principals,
          audit_log, h_access, records, pc, ret>>

(***************************************************************************)
(* Bounds of the model.                                                    *)
(***************************************************************************)
MaxTasks == 3
MaxCompleted == 2
MaxWindow == 2
MaxPushes == 3
MaxStrLen == 1
MaxWrites == 2
MaxAccessCalls == 4
MaxRecords == 2

None == "None"
NoTask == 0

Min(a, b) == IF a < b THEN a ELSE b
Range(s) == {s[i] : i \in 1..Len(s)}
LastN(s, n) == SubSeq(s, Len(s) - n + 1, Len(s))

(***************************************************************************)
(* Texts: sequences of one-character strings.                              *)
(***************************************************************************)
UpperCase == <<"A","B","C","D","E","F","G","H","I","J","K","L","M",
               "N","O","P","Q","R","S","T","U","V","W","X","Y","Z">>
LowerCase == <<"a","b","c","d","e","f","g","h","i","j","k","l","m",
               "n","o","p","q","r","s","t","u","v","w","x","y","z">>
Digits == {"0","1","2","3","4","5","6","7","8","9"}

\* str.lower() on one character.
LowerOf == [c \in {UpperCase[i] : i \in 1..Len(UpperCase)} |->
              LowerCase[CHOOSE i \in 1..Len(UpperCase) : UpperCase[i] = c]]
Lower(c) == IF c \in DOMAIN LowerOf THEN LowerOf[c] ELSE c

LowerText(t) == [i \in 1..Len(t) |-> Lower(t[i])]

\* \w of the regular expressions.
WordChars == Range(UpperCase) \cup Range(LowerCase) \cup Digits \cup {"_"}
IsWordChar(c) == c \in WordChars
\* The whitespace str.split() splits on.
IsSpace(c) == c \in {" ", "\n", "\t"}
\* [.!?] of the sentence split.
IsTerminator(c) == c \in {".", "!", "?"}

\* The end of the maximal run of word characters that starts at i.
WordRunEnd(t, i) ==
    CHOOSE e \in i..Len(t) :
        /\ \A j \in i..e : IsWordChar(t[j])
        /\ (e = Len(t) \/ ~IsWordChar(t[e + 1]))

\* re.findall(r'\b\w+\b', t), as the set of the tokens found.
TokenSet(t) ==
    {SubSeq(t, i, WordRunEnd(t, i)) :
        i \in {k \in 1..Len(t) : IsWordChar(t[k]) /\ (k = 1 \/ ~IsWordChar(t[k - 1]))}}

\* len(t.split()): the number of maximal runs of non-whitespace characters.
WordCount(t) ==
    Cardinality({k \in 1..Len(t) : ~IsSpace(t[k]) /\ (k = 1 \/ IsSpace(t[k - 1]))})

\* re.split(r'[.!?]+', t): where the pieces start. The first piece starts at 1, the
\* others right after a maximal run of terminators; a piece may be empty.
SentenceStarts(t) ==
    {1} \cup {j + 1 : j \in {k \in 1..Len(t) :
                  IsTerminator(t[k]) /\ (k = Len(t) \/ ~IsTerminator(t[k + 1]))}}

\* The piece that starts at s: up to the next terminator, or to the end.
Sentence(t, s) ==
    SubSeq(t, s, CHOOSE e \in (s - 1)..Len(t) :
                     /\ \A j \in s..e : ~IsTerminator(t[j])
                     /\ (e = Len(t) \/ IsTerminator(t[e + 1])))

\* tok in s, for strings.
Contains(s, tok) ==
    \E i \in 1..(Len(s) - Len(tok) + 1) : SubSeq(s, i, i + Len(tok) - 1) = tok

UNCERTAINTY_TOKENS ==
    {<<"m","a","y","b","e">>,
     <<"p","e","r","h","a","p","s">>,
     <<"p","o","s","s","i","b","l","y">>,
     <<"m","i","g","h","t">>,
     <<"c","o","u","l","d">>,
     <<"u","n","s","u","r","e">>,
     <<"u","n","c","l","e","a","r">>,
     <<"p","r","o","b","a","b","l","y">>,
     <<"a","p","p","a","r","e","n","t","l","y">>,
     <<"s","e","e","m","i","n","g","l","y">>,
     <<"i"," ","t","h","i","n","k">>,
     <<"i"," ","b","e","l","i","e","v","e">>,
     <<"n","o","t"," ","s","u","r","e">>,
     <<"h","a","l","l","u","c","i","n","a","t","e">>,
     <<"f","a","b","r","i","c","a","t","e">>,
     <<"m","a","d","e"," ","u","p">>,
     <<"u","n","c","e","r","t","a","i","n">>}

\* The texts the model's calls are made with.
T_HI == <<"h","i">>
T_OK == <<"o","k">>
T_MAYBE == <<"M","a","y","b","e",".">>
T_HI_OK == <<"h","i"," ","o","k">>
T_ECHO == <<"E","C","H","O",":"," ">>
T_MOCK_OPEN == <<"[","m","o","c","k"," ","r","e","s","p","o","n","s","e"," ","t","o",":"," ">>

(***************************************************************************)
(* Scores: Python floats, modelled as fractions <<n, d>> in lowest terms;  *)
(* a None score is the empty tuple.                                        *)
(***************************************************************************)
NoneScore == <<>>

RECURSIVE Gcd(_, _)
Gcd(a, b) == IF b = 0 THEN a ELSE Gcd(b, a % b)

Frac(n, d) == IF n = 0 THEN <<0, 1>> ELSE <<n \div Gcd(n, d), d \div Gcd(n, d)>>
FracAdd(x, y) == Frac(x[1] * y[2] + y[1] * x[2], x[2] * y[2])

RECURSIVE FracSum(_)
FracSum(vals) == IF vals = <<>> THEN <<0, 1>> ELSE FracAdd(Head(vals), FracSum(Tail(vals)))

(***************************************************************************)
(* Scheduler                                                               *)
(***************************************************************************)
POLICIES == {"fifo", "priority", "round_robin"}
AgentNames == {"agent_a", "agent_b"}
Payloads == {"payload1"}
Priorities == {0, 5}
Results == {"ok"}

InitScheduler(policies) ==
    /\ policy \in policies
    /\ h_dispatched = NoTask
    /\ queue = <<>>
    /\ completed = <<>>
    /\ tasks = <<>>

\* The task dict submit creates; heap holds the task dicts created so far.
NewTask(heap, task_id, agent_name, payload, priority) ==
    [task_id |-> task_id, agent_name |-> agent_name, payload |-> payload,
     priority |-> priority, submitted_at |-> Len(heap) + 1,
     status |-> "queued", completed_at |-> 0, result |-> None]

\* submit: the task dict is created and appended to the queue.
SubmittedTasks(heap, task_id, agent_name, payload, priority) ==
    Append(heap, NewTask(heap, task_id, agent_name, payload, priority))
SubmittedQueue(q, heap) == Append(q, Len(heap) + 1)

SchedulerSubmit(task_id, agent_name, payload, priority) ==
    /\ tasks' = SubmittedTasks(tasks, task_id, agent_name, payload, priority)
    /\ queue' = SubmittedQueue(queue, tasks)
    /\ UNCHANGED <<policy, completed, h_dispatched>>

\* The place of task reference t in a queue sorted by descending priority:
\* after every element whose priority is at least its own.
RECURSIVE InsertByPriority(_, _, _)
InsertByPriority(sorted, t, heap) ==
    IF sorted = <<>> THEN <<t>>
    ELSE IF heap[Head(sorted)].priority >= heap[t].priority
         THEN <<Head(sorted)>> \o InsertByPriority(Tail(sorted), t, heap)
         ELSE <<t>> \o sorted

RECURSIVE InsertByPriorityUnstable(_, _, _)
InsertByPriorityUnstable(sorted, t, heap) ==
    IF sorted = <<>> THEN <<t>>
    ELSE IF heap[Head(sorted)].priority > heap[t].priority
         THEN <<Head(sorted)>> \o InsertByPriorityUnstable(Tail(sorted), t, heap)
         ELSE <<t>> \o sorted

RECURSIVE SortUnstableFrom(_, _, _)
SortUnstableFrom(acc, q, heap) ==
    IF q = <<>> THEN acc
    ELSE SortUnstableFrom(InsertByPriorityUnstable(acc, Head(q), heap), Tail(q), heap)

\* A mutant of the sort: equal priorities come out in reverse order.
SortedUnstable(q, heap) == SortUnstableFrom(<<>>, q, heap)

RECURSIVE SortFrom(_, _, _)
SortFrom(acc, q, heap) ==
    IF q = <<>> THEN acc
    ELSE SortFrom(InsertByPriority(acc, Head(q), heap), Tail(q), heap)

\* sorted(self._queue, key=lambda t: t['priority'], reverse=True): stable.
SortedByPriority(q, heap) == SortFrom(<<>>, q, heap)

\* A mutant of next_task's selection: the queue is sorted under every policy.
PolicyOrderSorted(q, heap) == SortedByPriority(q, heap)

\* The queue as next_task leaves it before popleft.
PolicyOrder(q, heap) == IF policy = "priority" THEN SortedByPriority(q, heap) ELSE q

\* A mutant of next_task: the task is returned and stays queued.
NextTaskQueuePeek(q, heap) == IF q = <<>> THEN q ELSE PolicyOrder(q, heap)

\* next_task on queue q: the queue it leaves and the task it returns.
NextTaskQueue(q, heap) == IF q = <<>> THEN q ELSE Tail(PolicyOrder(q, heap))
NextTaskValue(q, heap) == IF q = <<>> THEN NoTask ELSE Head(PolicyOrder(q, heap))

\* The task returned last, once next_task has run on queue q.
LastDispatched(q, heap) == IF q = <<>> THEN h_dispatched ELSE NextTaskValue(q, heap)

SchedulerNextTask ==
    /\ queue' = NextTaskQueue(queue, tasks)
    /\ h_dispatched' = LastDispatched(queue, tasks)
    /\ UNCHANGED <<policy, completed, tasks>>

\* mark_done: mutates the task dict the caller passes and appends it to the log.
MarkedDoneTasks(heap, log, t, result) ==
    [heap EXCEPT ![t] = [@ EXCEPT !.status = "completed",
                                  !.completed_at = Len(log) + 1,
                                  !.result = result]]

\* A log that holds each task at most once (not what the code does).
MarkedDoneLogOnce(log, t) ==
    IF \E i \in 1..Len(log) : log[i] = t THEN log ELSE Append(log, t)

\* mark_done: self._completed.append(task), whatever the log already holds.
MarkedDoneLog(log, t) == Append(log, t)

SchedulerMarkDone(t, result) ==
    /\ tasks' = MarkedDoneTasks(tasks, completed, t, result)
    /\ completed' = MarkedDoneLog(completed, t)
    /\ UNCHANGED <<policy, queue, h_dispatched>>

queue_length == Len(queue)
completed_tasks == [i \in 1..Len(completed) |-> tasks[completed[i]]]

(***************************************************************************)
(* ContextManager                                                          *)
(***************************************************************************)
\* ApplicationLayer._registry: the agents of the kernel. Each agent's session id is
\* a uuid4 of its own; the model names an agent's session after the agent.
AGENT_REGISTRY == {"government_compliance_agent", "music_production_agent",
                   "research_agent", "workflow_designer", "prompt_library"}
SessionIds == {"sess1", "sess2"}
EntryRoles == {"user", "assistant"}
Contents == {T_HI, T_OK}

InitContext(windows) ==
    /\ window_size \in windows
    /\ sessions = <<>>
    /\ h_pushed = [s \in SessionIds \cup AGENT_REGISTRY |-> <<>>]

\* self._sessions[session_id] of the defaultdict: a missing key is created with an
\* empty deque.
SessionsWith(sess, session_id) ==
    IF session_id \in DOMAIN sess THEN sess ELSE sess @@ (session_id :> <<>>)

\* A mutant of the deque: a full window drops the entry that is appended.
DequeAppendDropNew(d, x, maxlen) ==
    IF Len(d) >= maxlen THEN d ELSE Append(d, x)

\* deque(maxlen).append(x): a full deque discards its leftmost item.
DequeAppend(d, x, maxlen) ==
    IF maxlen = 0 THEN d
    ELSE IF Len(d) = maxlen THEN Append(Tail(d), x)
    ELSE Append(d, x)

ContextEntry(role, content) == [role |-> role, content |-> content]

\* push on the sessions sess.
PushedSessions(sess, session_id, role, content) ==
    [SessionsWith(sess, session_id) EXCEPT
        ![session_id] = DequeAppend(@, ContextEntry(role, content), window_size)]

PushedHistory(h, session_id, role, content) ==
    [h EXCEPT ![session_id] = Append(@, ContextEntry(role, content))]

ContextPush(session_id, role, content) ==
    /\ sessions' = PushedSessions(sessions, session_id, role, content)
    /\ h_pushed' = PushedHistory(h_pushed, session_id, role, content)
    /\ UNCHANGED window_size

\* get_context: list(self._sessions[session_id]); the lookup creates the key.
GetContextValue(session_id) == SessionsWith(sessions, session_id)[session_id]

ContextGetContext(session_id) ==
    /\ sessions' = SessionsWith(sessions, session_id)
    /\ UNCHANGED <<window_size, h_pushed>>

\* A clear that pops the session from the dict (not what the code does).
ContextClearPops(session_id) ==
    /\ sessions' = [sid \in (DOMAIN sessions) \ {session_id} |-> sessions[sid]]
    /\ h_pushed' = [h_pushed EXCEPT ![session_id] = <<>>]
    /\ UNCHANGED window_size

\* clear: self._sessions[session_id].clear(); the lookup creates the key.
ContextClear(session_id) ==
    /\ sessions' = [SessionsWith(sessions, session_id) EXCEPT ![session_id] = <<>>]
    /\ h_pushed' = [h_pushed EXCEPT ![session_id] = <<>>]
    /\ UNCHANGED window_size

\* Every key of the sessions dict, empty windows included (not what the code does).
ActiveSessionsAllKeys == DOMAIN sessions

\* active_sessions: the keys of the dict whose deque is truthy. The list holds each
\* key once; it is modelled as the set of its elements.
active_sessions == {sid \in DOMAIN sessions : sessions[sid] # <<>>}

(***************************************************************************)
(* RelationalStore and the long-term half of MemoryManager                 *)
(***************************************************************************)
StrAlphabet == {"a", ":"}
Strs == UNION {[1..n -> StrAlphabet] : n \in 0..MaxStrLen}
Values == {"v1", "v2"}
Defaults == {None, "dflt"}
LONG_TERM_MEMORY == "long_term_memory"
TableNames == {LONG_TERM_MEMORY}
DEPLOYMENT_MODES == {"local", "remote_kernel", "personal_remote", "hybrid"}
\* DataLayer(deployment_mode='local')
DEFAULT_MODE == "local"

InitMemory ==
    /\ tables = [t \in TableNames |-> <<>>]
    /\ vector_records = <<>>
    /\ h_written = <<>>

\* self._tables[table] of the defaultdict: a missing table is created empty.
TablesWith(tbls, table) ==
    IF table \in DOMAIN tbls THEN tbls ELSE tbls @@ (table :> <<>>)

\* RelationalStore.insert: insert or replace.
StoreInsert(table, record_id, data) ==
    [TablesWith(tables, table) EXCEPT ![table] =
        IF record_id \in DOMAIN @ THEN [@ EXCEPT ![record_id] = data]
        ELSE @ @@ (record_id :> data)]

\* RelationalStore.get: the record, or None.
StoreHas(table, record_id) ==
    table \in DOMAIN tables /\ record_id \in DOMAIN tables[table]
StoreGet(table, record_id) == tables[table][record_id]

\* An Optional[Dict] is a sequence: <<record>> for a record, <<>> for None.
\* dict.get(record_id) and dict.pop(record_id, None) of a table.
StoreFind(table, record_id) ==
    IF StoreHas(table, record_id) THEN <<StoreGet(table, record_id)>> ELSE <<>>

\* A record of the store's callers is a dict, modelled as the set of its
\* <<key, value>> items; record.get(k) is the value of k, or None.
DictGet(record, k) ==
    IF \E item \in record : item[1] = k
    THEN (CHOOSE item \in record : item[1] = k)[2]
    ELSE None

\* RelationalStore.query: the records that match every filter. The model returns
\* the ids of the matching records; the code returns copies of them in the
\* table's insertion order.
StoreQuery(table, filters) ==
    {record_id \in DOMAIN TablesWith(tables, table)[table] :
        \A f \in filters : DictGet(StoreGet(table, record_id), f[1]) = f[2]}

\* The tables after self._tables[table].pop(record_id, None).
StoreDeleted(table, record_id) ==
    [TablesWith(tables, table) EXCEPT ![table] =
        [r \in (DOMAIN @) \ {record_id} |-> @[r]]]

\* A delete that tests the truth of the popped record: false for an empty dict.
StoreDeleteTruthy(table, record_id) ==
    /\ StoreFind(table, record_id) # <<>>
    /\ StoreFind(table, record_id)[1] # {}

\* RelationalStore.delete: pop(record_id, None) is not None.
StoreDelete(table, record_id) == StoreFind(table, record_id) # <<>>


(***************************************************************************)
(* VectorStore. A score is a real number n / sqrt(d), kept exactly as the  *)
(* pair <<n, d>> of naturals; the code computes it in IEEE doubles, which  *)
(* round (the dot product of a normalised vector with itself may come out  *)
(* as 1.0000000000000002).                                                 *)
(***************************************************************************)
\* Where the tokens of re.findall(r'\b\w+\b', t) start.
TokenStarts(t) ==
    {k \in 1..Len(t) : IsWordChar(t[k]) /\ (k = 1 \/ ~IsWordChar(t[k - 1]))}

\* counts of _vectorise: how often each token occurs in text.lower().
TermCounts(text) ==
    LET t == LowerText(text)
    IN  [tok \in TokenSet(t) |->
            Cardinality({k \in TokenStarts(t) : SubSeq(t, k, WordRunEnd(t, k)) = tok})]

RECURSIVE SumOver(_, _)
SumOver(f, keys) ==
    IF keys = {} THEN 0
    ELSE LET k == CHOOSE x \in keys : TRUE
         IN  f[k] + SumOver(f, keys \ {k})

\* The square of norm in _vectorise: sum(v * v) or, when that is zero, 1.
NormSquared(counts) ==
    LET sq == SumOver([k \in DOMAIN counts |-> counts[k] * counts[k]], DOMAIN counts)
    IN  IF sq = 0 THEN 1 ELSE sq

\* _vectorise: the vector counts / sqrt(normsq).
VectoriseText(text) ==
    [counts |-> TermCounts(text), normsq |-> NormSquared(TermCounts(text))]

\* The texts of the calls on a bare VectorStore: without a word, of one word, of
\* two words, the same two words in capitals with punctuation, and with a
\* repeated word.
V_EMPTY == <<>>
V_A == <<"a">>
V_AB == <<"a", " ", "b">>
V_UPPER == <<"A", "!", " ", "B">>
V_AAB == <<"a", " ", "a", " ", "b">>
VecTexts == {V_EMPTY, V_A, V_AB, V_UPPER, V_AAB}

\* _vectorise of these texts, evaluated once.
KnownVectors == [t \in VecTexts |-> VectoriseText(t)]
Vectorise(text) ==
    IF text \in VecTexts THEN KnownVectors[text] ELSE VectoriseText(text)

\* The dot product of the raw counts, without the normalisation.
CosineOfCounts(a, b) ==
    <<SumOver([k \in DOMAIN b.counts |->
                  (IF k \in DOMAIN a.counts THEN a.counts[k] ELSE 0) * b.counts[k]],
              DOMAIN b.counts),
      1>>

\* _cosine(a, b): sum(a.get(k, 0.0) * v for k, v in b.items()).
Cosine(a, b) ==
    <<SumOver([k \in DOMAIN b.counts |->
                  (IF k \in DOMAIN a.counts THEN a.counts[k] ELSE 0) * b.counts[k]],
              DOMAIN b.counts),
      a.normsq * b.normsq>>

\* s >= t and s = t for scores n / sqrt(d) with n >= 0 and d > 0.
ScoreGeq(s, t) == s[1] * s[1] * t[2] >= t[1] * t[1] * s[2]
ScoreEq(s, t) == s[1] * s[1] * t[2] = t[1] * t[1] * s[2]
SCORE_ONE == <<1, 1>>

\* metadata or {}
MetadataOr(metadata) == IF metadata = None THEN <<>> ELSE metadata

IndexOfDoc(recs, doc_id) == CHOOSE i \in 1..Len(recs) : recs[i].id = doc_id
HasDoc(recs, doc_id) == \E i \in 1..Len(recs) : recs[i].id = doc_id

\* upsert: self._records[doc_id] = (text, vector, metadata). An existing key keeps
\* its place in the dict, a new key goes to the end. The vector is a function of
\* the text and is computed from it where it is used.
Upserted(recs, doc_id, text, metadata) ==
    LET entry == [id |-> doc_id, text |-> text, metadata |-> MetadataOr(metadata)]
    IN  IF HasDoc(recs, doc_id)
        THEN [recs EXCEPT ![IndexOfDoc(recs, doc_id)] = entry]
        ELSE Append(recs, entry)

\* The records after self._records.pop(doc_id, None).
VectorDeleted(recs, doc_id) ==
    IF HasDoc(recs, doc_id)
    THEN LET i == IndexOfDoc(recs, doc_id)
         IN  SubSeq(recs, 1, i - 1) \o SubSeq(recs, i + 1, Len(recs))
    ELSE recs

\* VectorStore.delete: pop(doc_id, None) is not None; a stored tuple is not None.
VectorDelete(recs, doc_id) == HasDoc(recs, doc_id)

\* scored of search: one hit per record, in the dict's order.
Scored(recs, query) ==
    LET q_vec == Vectorise(query)
    IN  [i \in 1..Len(recs) |->
            [id |-> recs[i].id, text |-> recs[i].text,
             score |-> Cosine(q_vec, Vectorise(recs[i].text)),
             metadata |-> recs[i].metadata]]

\* An unstable descending sort: a hit goes before the hits of equal score.
RECURSIVE InsertByScoreUnstable(_, _)
InsertByScoreUnstable(sorted, hit) ==
    IF sorted = <<>> THEN <<hit>>
    ELSE IF ScoreGeq(Head(sorted).score, hit.score)
            /\ ~ScoreEq(Head(sorted).score, hit.score)
         THEN <<Head(sorted)>> \o InsertByScoreUnstable(Tail(sorted), hit)
         ELSE <<hit>> \o sorted

\* list.sort(key=score, reverse=True) is stable: a hit goes after every hit whose
\* score is at least its own.
RECURSIVE InsertByScore(_, _)
InsertByScore(sorted, hit) ==
    IF sorted = <<>> THEN <<hit>>
    ELSE IF ScoreGeq(Head(sorted).score, hit.score)
         THEN <<Head(sorted)>> \o InsertByScore(Tail(sorted), hit)
         ELSE <<hit>> \o sorted

RECURSIVE SortByScoreFrom(_, _)
SortByScoreFrom(sorted, rest) ==
    IF rest = <<>> THEN sorted
    ELSE SortByScoreFrom(InsertByScore(sorted, Head(rest)), Tail(rest))

SortedByScore(hits) == SortByScoreFrom(<<>>, hits)

\* hits[:top_k]: a negative top_k drops that many hits from the end.
SliceTo(hits, top_k) ==
    IF top_k >= 0 THEN SubSeq(hits, 1, Min(top_k, Len(hits)))
    ELSE SubSeq(hits, 1, Len(hits) + top_k)

\* VectorStore.search
Search(recs, query, top_k) == SliceTo(SortedByScore(Scored(recs, query)), top_k)

\* f'{namespace}::{key}'
CompositeKey(namespace, key) == namespace \o <<":", ":">> \o key

MemoryRememberLong(namespace, key, value) ==
    /\ tables' = StoreInsert(LONG_TERM_MEMORY, CompositeKey(namespace, key),
                             [namespace |-> namespace, key |-> key, value |-> value])
    /\ h_written' = IF <<namespace, key>> \in DOMAIN h_written
                    THEN [h_written EXCEPT ![<<namespace, key>>] = value]
                    ELSE h_written @@ (<<namespace, key>> :> value)
    /\ UNCHANGED <<deployment_mode, vector_records>>

\* recall_long: record['value'] if record else default (a stored record is a
\* non-empty dict, hence true).
RecallLongValue(namespace, key, default) ==
    IF StoreHas(LONG_TERM_MEMORY, CompositeKey(namespace, key))
    THEN StoreGet(LONG_TERM_MEMORY, CompositeKey(namespace, key)).value
    ELSE default

(***************************************************************************)
(* LLMCore                                                                 *)
(***************************************************************************)
ProviderNames == {"echo", "other"}
\* What a caller may pass as `provider`: a name, None, or the empty string.
ProviderArgs == ProviderNames \cup {None, ""}
\* The handlers callers register: one that answers, one that raises.
Handlers == {"echo_provider", "failing_provider"}
LongPrompt == [i \in 1..81 |-> "a"]
Prompts == {T_HI, T_MAYBE, LongPrompt}
MOCK_PROMPT_CHARS == 80
ECHO_PROMPT_CHARS == 50

InitLLM ==
    /\ providers = <<>>
    /\ default_provider = None
    /\ h_first = None
    /\ h_last_default = None


\* A mutant of register_provider: every registration becomes the default.
RegisterDefaultLatest(name, set_default) == name

\* The default after register_provider(name, handler, set_default).
RegisterDefault(name, set_default) ==
    IF set_default \/ default_provider = None THEN name ELSE default_provider

LLMRegisterProvider(name, handler, set_default) ==
    /\ providers' = IF name \in DOMAIN providers
                    THEN [providers EXCEPT ![name] = handler]
                    ELSE providers @@ (name :> handler)
    /\ default_provider' = RegisterDefault(name, set_default)
    /\ h_first' = IF providers = <<>> /\ h_first = None THEN name ELSE h_first
    /\ h_last_default' = IF set_default THEN name ELSE h_last_default

Prefix(s, n) == SubSeq(s, 1, Min(n, Len(s)))

HandlerRaises(handler) == handler = "failing_provider"
\* echo_provider of the tests: f"ECHO: {prompt[:50]}"
HandlerText(handler, prompt) == T_ECHO \o Prefix(prompt, ECHO_PROMPT_CHARS)

\* f"[mock response to: {prompt[:80]}{'...' if len(prompt) > 80 else ''}]"
MockResponse(prompt) ==
    T_MOCK_OPEN \o Prefix(prompt, MOCK_PROMPT_CHARS)
        \o (IF Len(prompt) > MOCK_PROMPT_CHARS THEN <<".", ".", ".">> ELSE <<>>)
        \o <<"]">>

\* provider or self._default_provider
Chosen(provider) == IF provider \in {None, ""} THEN default_provider ELSE provider


\* chosen and chosen in self._providers
UsesHandler(chosen) == chosen \notin {None, ""} /\ chosen \in DOMAIN providers

CompletionResult(prompt, response_text, chosen) ==
    [response |-> response_text, provider |-> chosen,
     prompt_tokens |-> WordCount(prompt),
     completion_tokens |-> WordCount(response_text)]

NoResult == [response |-> <<>>, provider |-> None, prompt_tokens |-> 0,
             completion_tokens |-> 0]

MockOutcome(prompt) ==
    [raised |-> FALSE, calls |-> <<>>,
     value |-> CompletionResult(prompt, MockResponse(prompt), "mock")]

\* A mutant of complete: a handler that raises is replaced by the mock.
HandlerOutcomeFallback(prompt, chosen) ==
    IF HandlerRaises(providers[chosen])
    THEN [MockOutcome(prompt) EXCEPT !.calls = <<chosen>>]
    ELSE [raised |-> FALSE, calls |-> <<chosen>>,
          value |-> CompletionResult(prompt, HandlerText(providers[chosen], prompt),
                                     chosen)]

\* self._providers[chosen](prompt, **kwargs) and what complete makes of it: the
\* handler is called once; what it raises leaves complete.
HandlerOutcome(prompt, chosen) ==
    IF HandlerRaises(providers[chosen])
    THEN [raised |-> TRUE, calls |-> <<chosen>>, value |-> NoResult]
    ELSE [raised |-> FALSE, calls |-> <<chosen>>,
          value |-> CompletionResult(prompt, HandlerText(providers[chosen], prompt),
                                     chosen)]

\* complete(prompt, provider): whether it raised, the handlers it called, its value.
CompleteOutcome(prompt, provider) ==
    IF UsesHandler(Chosen(provider))
    THEN HandlerOutcome(prompt, Chosen(provider))
    ELSE MockOutcome(prompt)

available_providers == DOMAIN providers

(***************************************************************************)
(* ToolAccessManager                                                       *)
(***************************************************************************)
RoleNames == {"analyst", "admin"}
ToolNames == {"policy_analyze", "file_write"}
ToolLists == {<<"policy_analyze">>, <<"file_write">>}
Principals == {"agent_a", "agent_b"}

InitAccess ==
    /\ roles = <<>>
    /\ principals = <<>>
    /\ audit_log = <<>>
    /\ h_access = <<>>

\* A mutant of define_role: the new list replaces the role's tools.
DefinedToolsReplace(role, tools) == Range(tools)

\* self._roles[role].update(tools): the role's tools after define_role.
DefinedTools(role, tools) ==
    (IF role \in DOMAIN roles THEN roles[role] ELSE {}) \cup Range(tools)

AccessDefineRole(role, tools) ==
    /\ roles' = IF role \in DOMAIN roles
                THEN [roles EXCEPT ![role] = DefinedTools(role, tools)]
                ELSE roles @@ (role :> DefinedTools(role, tools))
    /\ h_access' = Append(h_access, [op |-> "define_role", role |-> role,
                                     tools |-> tools])
    /\ UNCHANGED <<principals, audit_log>>

AccessAssignRole(principal, role) ==
    /\ principals' = IF principal \in DOMAIN principals
                     THEN [principals EXCEPT ![principal] = role]
                     ELSE principals @@ (principal :> role)
    /\ h_access' = Append(h_access, [op |-> "assign_role", principal |-> principal,
                                     role |-> role])
    /\ UNCHANGED <<roles, audit_log>>

\* self._principals.get(principal)
ResolvedRole(principal) ==
    IF principal \in DOMAIN principals THEN principals[principal] ELSE None

\* self._roles.get(role, set())
RoleTools(role) == IF role \in DOMAIN roles THEN roles[role] ELSE {}


\* role is not None and tool in self._roles.get(role, set())
Allowed(principal, tool) ==
    ResolvedRole(principal) # None /\ tool \in RoleTools(ResolvedRole(principal))

\* A mutant of the audit entry: only denials are logged.
AuditAppendDenials(principal, tool) ==
    IF Allowed(principal, tool) THEN audit_log
    ELSE Append(audit_log, [principal |-> principal, tool |-> tool,
                            role |-> ResolvedRole(principal), allowed |-> FALSE])

\* The audit log after check_access(principal, tool).
AuditAppend(principal, tool) ==
    Append(audit_log, [principal |-> principal, tool |-> tool,
                       role |-> ResolvedRole(principal),
                       allowed |-> Allowed(principal, tool)])

AccessCheckAccess(principal, tool) ==
    /\ audit_log' = AuditAppend(principal, tool)
    /\ h_access' = Append(h_access, [op |-> "check_access", principal |-> principal,
                                     tool |-> tool])
    /\ UNCHANGED <<roles, principals>>

\* A mutant of permitted_tools: the tools of every role, whatever the principal's.
PermittedToolsOfAnyRole(principal) == UNION {roles[r] : r \in DOMAIN roles}

\* sorted(self._roles.get(role, set())), as a set.
permitted_tools(principal) == RoleTools(ResolvedRole(principal))

(***************************************************************************)
(* EvaluationEngine                                                        *)
(***************************************************************************)
EVALUATION_METRICS == {"hallucination_frequency", "context_relevance", "correctness"}
\* The `correct` argument of evaluate: True, False or None.
CorrectArgs == {"True", "False", None}
EvalTexts == {<<>>, T_HI, T_MAYBE, T_HI_OK}

InitEvaluation == records = <<>>


\* any(tok in s for tok in _UNCERTAINTY_TOKENS)
IsUncertain(s) == \E tok \in UNCERTAINTY_TOKENS : Contains(s, tok)

\* The pieces of the split of t, by where they start, that are uncertain.
UncertainPieces(t) == {s \in SentenceStarts(t) : IsUncertain(Sentence(t, s))}

\* _score_hallucination on the lowered text t: the fraction of the pieces of the
\* split that contain an uncertainty token. The split always yields a piece.
ScoreOfSentences(t) ==
    IF SentenceStarts(t) = {} THEN Frac(0, 1)
    ELSE Frac(Cardinality(UncertainPieces(t)), Cardinality(SentenceStarts(t)))

ScoreHallucination(text) == ScoreOfSentences(LowerText(text))

\* _score_relevance: Jaccard similarity of the two token sets.
ScoreRelevance(prompt, response) ==
    LET p_tokens == TokenSet(LowerText(prompt))
        r_tokens == TokenSet(LowerText(response))
    IN  IF p_tokens = {} /\ r_tokens = {} THEN Frac(1, 1)
        ELSE IF p_tokens = {} \/ r_tokens = {} THEN Frac(0, 1)
        ELSE Frac(Cardinality(p_tokens \cap r_tokens),
                  Cardinality(p_tokens \cup r_tokens))

\* 1.0 if correct else (0.0 if correct is False else None)
ScoreCorrectness(correct) ==
    IF correct = "True" THEN Frac(1, 1)
    ELSE IF correct = "False" THEN Frac(0, 1)
    ELSE NoneScore

EvaluationRecord(agent_name, prompt, response, correct) ==
    [agent |-> agent_name,
     scores |-> [hallucination_frequency |-> ScoreHallucination(response),
                 context_relevance |-> ScoreRelevance(prompt, response),
                 correctness |-> ScoreCorrectness(correct)]]

EvaluationEvaluate(agent_name, prompt, response, correct) ==
    records' = IF agent_name \in DOMAIN records
               THEN [records EXCEPT ![agent_name] =
                        Append(@, EvaluationRecord(agent_name, prompt, response, correct))]
               ELSE records @@ (agent_name :>
                        <<EvaluationRecord(agent_name, prompt, response, correct)>>)

\* self._records.get(agent_name, [])
RecordsOf(agent_name) ==
    IF agent_name \in DOMAIN records THEN records[agent_name] ELSE <<>>

\* agg[metric]: the non-None values of the metric, in record order.
MetricValues(agent_name, metric) ==
    LET all == [i \in 1..Len(RecordsOf(agent_name)) |->
                    RecordsOf(agent_name)[i].scores[metric]]
    IN  SelectSeq(all, LAMBDA v : v # NoneScore)

\* sum(vals) / len(vals)
Mean(vals) == Frac(FracSum(vals)[1], FracSum(vals)[2] * Len(vals))


\* aggregate: a dict with the three metrics at None when the agent has no record,
\* else a dict over the keys of agg, the metrics with at least one non-None value.
aggregate(agent_name) ==
    IF RecordsOf(agent_name) = <<>>
    THEN [m \in EVALUATION_METRICS |-> NoneScore]
    ELSE [m \in {k \in EVALUATION_METRICS : MetricValues(agent_name, k) # <<>>} |->
             IF MetricValues(agent_name, m) # <<>>
             THEN Mean(MetricValues(agent_name, m))
             ELSE NoneScore]

(***************************************************************************)
(* The calls on a Scheduler                                                *)
(***************************************************************************)
DEFAULT_POLICY == "fifo"
DEFAULT_WINDOW == 20

InitSchedulerSpec ==
    /\ InitScheduler(POLICIES)
    /\ InitContext({DEFAULT_WINDOW})
    /\ InitMemory /\ InitLLM /\ InitAccess /\ InitEvaluation
    /\ deployment_mode = DEFAULT_MODE
    /\ pc = NoCalls
    /\ ret = [op |-> "init"]

\* Callers generate the task ids; here the id is the ordinal of the submit call.
Submit ==
    \E agent_name \in AgentNames, payload \in Payloads, priority \in Priorities :
        /\ Len(tasks) < MaxTasks
        /\ SchedulerSubmit(Len(tasks) + 1, agent_name, payload, priority)
        /\ UNCHANGED pc
        /\ ret' = [op |-> "submit", value |-> Len(tasks) + 1]
        /\ UNCHANGED <<ctxVars, memVars, llmVars, accessVars, evalVars>>

NextTask ==
    /\ SchedulerNextTask
    /\ UNCHANGED pc
    /\ ret' = [op |-> "next_task", value |-> NextTaskValue(queue, tasks)]
    /\ UNCHANGED <<ctxVars, memVars, llmVars, accessVars, evalVars>>

MarkDone ==
    \E t \in 1..Len(tasks), result \in Results :
        /\ Len(completed) < MaxCompleted
        /\ SchedulerMarkDone(t, result)
        /\ UNCHANGED pc
        /\ ret' = [op |-> "mark_done", task |-> t, result |-> result]
        /\ UNCHANGED <<ctxVars, memVars, llmVars, accessVars, evalVars>>

NextScheduler == Submit \/ NextTask \/ MarkDone

SpecScheduler == InitSchedulerSpec /\ [][NextScheduler]_vars

\* What next_task does to the queue when it returns task v: v was queued, and the
\* queue keeps the other tasks, each once.
Removes(v) ==
    /\ v \in Range(queue)
    /\ Len(queue') = Len(queue) - 1
    /\ Range(queue') = Range(queue) \ {v}

\* C1: under the 'priority' policy next_task removes and returns a queued task of
\* the maximum priority among the queued tasks and, among the queued tasks of that
\* priority, the one submitted earliest.
C1_PriorityNextTask ==
    [][(policy = "priority" /\ ret'.op = "next_task" /\ queue # <<>>) =>
            /\ Removes(ret'.value)
            /\ \A t \in Range(queue) :
                 /\ tasks[t].priority <= tasks[ret'.value].priority
                 /\ tasks[t].priority = tasks[ret'.value].priority =>
                        tasks[ret'.value].submitted_at <= tasks[t].submitted_at]_vars

\* C1's case: a priority next_task that passed over an earlier task of lower
\* priority and chose among tasks of equal priority.
C1_Witness ==
    /\ policy = "priority"
    /\ ret.op = "next_task"
    /\ ret.value # NoTask
    /\ \E t \in Range(queue) :
         /\ tasks[t].priority < tasks[ret.value].priority
         /\ tasks[t].submitted_at < tasks[ret.value].submitted_at
    /\ \E t \in Range(queue) : tasks[t].priority = tasks[ret.value].priority

\* C2: under the 'fifo' policy next_task removes and returns the queued task that
\* was submitted earliest, whatever the priorities; on an empty queue it returns
\* nothing and leaves the queue and the completed log as they were.
C2_FifoNextTask ==
    [][(policy = "fifo" /\ ret'.op = "next_task") =>
            IF queue = <<>>
            THEN ret'.value = NoTask /\ queue' = queue /\ completed' = completed
            ELSE /\ Removes(ret'.value)
                 /\ \A t \in Range(queue) :
                        tasks[ret'.value].submitted_at <= tasks[t].submitted_at]_vars

\* C2's case: a fifo next_task that returned a task while a task of higher
\* priority stayed queued.
C2_Witness ==
    /\ policy = "fifo"
    /\ ret.op = "next_task"
    /\ ret.value # NoTask
    /\ \E t \in Range(queue) : tasks[t].priority > tasks[ret.value].priority

(***************************************************************************)
(* The calls on a ContextManager                                           *)
(***************************************************************************)
InitContextSpec ==
    /\ InitScheduler({DEFAULT_POLICY})
    /\ InitContext(1..MaxWindow)
    /\ InitMemory /\ InitLLM /\ InitAccess /\ InitEvaluation
    /\ deployment_mode = DEFAULT_MODE
    /\ pc = NoCalls
    /\ ret = [op |-> "init"]

Push ==
    \E session_id \in SessionIds, role \in EntryRoles, content \in Contents :
        /\ Len(h_pushed[session_id]) < MaxPushes
        /\ ContextPush(session_id, role, content)
        /\ UNCHANGED pc
        /\ ret' = [op |-> "push", session |-> session_id]
        /\ UNCHANGED <<schedVars, memVars, llmVars, accessVars, evalVars>>

GetContext ==
    \E session_id \in SessionIds :
        /\ ContextGetContext(session_id)
        /\ UNCHANGED pc
        /\ ret' = [op |-> "get_context", session |-> session_id,
                   value |-> GetContextValue(session_id)]
        /\ UNCHANGED <<schedVars, memVars, llmVars, accessVars, evalVars>>

Clear ==
    \E session_id \in SessionIds :
        /\ ContextClear(session_id)
        /\ UNCHANGED pc
        /\ ret' = [op |-> "clear", session |-> session_id,
                   h_listed |-> session_id \in active_sessions]
        /\ UNCHANGED <<schedVars, memVars, llmVars, accessVars, evalVars>>

\* active_sessions reads the sessions and creates no key.
ActiveSessions ==
    /\ UNCHANGED pc
    /\ ret' = [op |-> "active_sessions", value |-> active_sessions]
    /\ UNCHANGED <<schedVars, ctxVars, memVars, llmVars, accessVars, evalVars>>

NextContext == Push \/ GetContext \/ Clear \/ ActiveSessions

SpecContext == InitContextSpec /\ [][NextContext]_vars

\* The last min(n, W) of the n entries pushed to the session since its last clear.
ExpectedWindow(session_id) ==
    LastN(h_pushed[session_id], Min(Len(h_pushed[session_id]), window_size))

\* C3: for every session get_context returns exactly the last min(n, W) entries
\* pushed to it since its last clear, oldest first; so the window never holds more
\* than W entries and a push onto a full window evicts exactly the oldest entry.
C3_WindowIsLastPushed ==
    /\ \A session_id \in SessionIds :
         /\ GetContextValue(session_id) = ExpectedWindow(session_id)
         /\ Len(GetContextValue(session_id)) <= window_size
    /\ ret.op = "get_context" => ret.value = ExpectedWindow(ret.session)

\* C3's case: get_context on a session that has evicted entries.
C3_Witness ==
    /\ ret.op = "get_context"
    /\ Len(h_pushed[ret.session]) > window_size
    /\ Len(ret.value) = window_size
    /\ ret.value[1] # h_pushed[ret.session][1]

(***************************************************************************)
(* The calls on a ToolAccessManager                                        *)
(***************************************************************************)
InitAccessSpec ==
    /\ InitScheduler({DEFAULT_POLICY})
    /\ InitContext({DEFAULT_WINDOW})
    /\ InitMemory /\ InitLLM /\ InitAccess /\ InitEvaluation
    /\ deployment_mode = DEFAULT_MODE
    /\ pc = NoCalls
    /\ ret = [op |-> "init"]

DefineRole ==
    \E role \in RoleNames, tools \in ToolLists :
        /\ Len(h_access) < MaxAccessCalls
        /\ AccessDefineRole(role, tools)
        /\ UNCHANGED pc
        /\ ret' = [op |-> "define_role"]
        /\ UNCHANGED <<schedVars, ctxVars, memVars, llmVars, evalVars>>

AssignRole ==
    \E principal \in Principals, role \in RoleNames :
        /\ Len(h_access) < MaxAccessCalls
        /\ AccessAssignRole(principal, role)
        /\ UNCHANGED pc
        /\ ret' = [op |-> "assign_role"]
        /\ UNCHANGED <<schedVars, ctxVars, memVars, llmVars, evalVars>>

CheckAccess ==
    \E principal \in Principals, tool \in ToolNames :
        /\ Len(h_access) < MaxAccessCalls
        /\ AccessCheckAccess(principal, tool)
        /\ UNCHANGED pc
        /\ ret' = [op |-> "check_access", principal |-> principal, tool |-> tool,
                   value |-> Allowed(principal, tool)]
        /\ UNCHANGED <<schedVars, ctxVars, memVars, llmVars, evalVars>>

\* permitted_tools reads the roles and writes nothing.
PermittedTools ==
    \E principal \in Principals :
        /\ UNCHANGED pc
        /\ ret' = [op |-> "permitted_tools", principal |-> principal,
                   value |-> permitted_tools(principal)]
        /\ UNCHANGED <<schedVars, ctxVars, memVars, llmVars, accessVars, evalVars>>

NextAccess == DefineRole \/ AssignRole \/ CheckAccess \/ PermittedTools

SpecAccess == InitAccessSpec /\ [][NextAccess]_vars

\* The role given in the most recent assign_role for the principal among the
\* calls h, or None.
LastAssigned(h, principal) ==
    LET is == {i \in 1..Len(h) : h[i].op = "assign_role" /\ h[i].principal = principal}
    IN  IF is = {} THEN None
        ELSE h[CHOOSE i \in is : \A j \in is : j <= i].role

\* The union of the tool lists passed to define_role for the role among the calls h.
EverDefined(h, role) ==
    UNION {Range(h[i].tools) :
              i \in {k \in 1..Len(h) : h[k].op = "define_role" /\ h[k].role = role}}

ExpectedAccess(h, principal, tool) ==
    /\ LastAssigned(h, principal) # None
    /\ tool \in EverDefined(h, LastAssigned(h, principal))

\* C4: check_access(principal, tool) is true exactly when the principal has an
\* assigned role, the one of its most recent assign_role, and the tool is in the
\* union of all tool lists passed to define_role for that role; for a principal
\* with no assigned role it is false.
C4_CheckAccessByHistory ==
    /\ \A principal \in Principals, tool \in ToolNames :
         /\ Allowed(principal, tool) = ExpectedAccess(h_access, principal, tool)
         /\ LastAssigned(h_access, principal) = None => ~Allowed(principal, tool)
    /\ ret.op = "check_access" =>
         ret.value = ExpectedAccess(h_access, ret.principal, ret.tool)

\* C4's case: an allowed check of an assigned principal for a tool that only an
\* earlier define_role of its role granted, a later one having listed other tools.
C4_Witness ==
    /\ ret.op = "check_access"
    /\ ret.value
    /\ \E i, j \in 1..Len(h_access) :
         /\ i < j
         /\ h_access[i].op = "define_role" /\ h_access[j].op = "define_role"
         /\ h_access[i].role = h_access[j].role
         /\ h_access[i].role = LastAssigned(h_access, ret.principal)
         /\ ret.tool \in Range(h_access[i].tools)
         /\ ret.tool \notin Range(h_access[j].tools)

\* The audit log the calls h should have left: one entry per check_access, with
\* the role resolved and the answer given at the moment of the check.
RECURSIVE ExpectedAuditLog(_)
ExpectedAuditLog(h) ==
    IF h = <<>> THEN <<>>
    ELSE LET before == SubSeq(h, 1, Len(h) - 1)
             call == h[Len(h)]
         IN  IF call.op = "check_access"
             THEN Append(ExpectedAuditLog(before),
                         [principal |-> call.principal, tool |-> call.tool,
                          role |-> LastAssigned(before, call.principal),
                          allowed |-> ExpectedAccess(before, call.principal, call.tool)])
             ELSE ExpectedAuditLog(before)

\* C5: every check_access, allowed or denied and also for an unknown principal,
\* appends exactly one entry with the principal, the tool, the role resolved at
\* that moment (None when unassigned) and the boolean returned; earlier entries
\* are never removed, reordered or modified, so the log is as long as the number
\* of check_access calls made.
C5_AuditLogByHistory ==
    /\ audit_log = ExpectedAuditLog(h_access)
    /\ Len(audit_log) = Cardinality({i \in 1..Len(h_access) :
                                        h_access[i].op = "check_access"})
    /\ ret.op = "check_access" =>
         audit_log[Len(audit_log)] =
             [principal |-> ret.principal, tool |-> ret.tool,
              role |-> ResolvedRole(ret.principal), allowed |-> ret.value]

\* C5's case: a denied check of a principal without a role, logged with role None
\* after an allowed check of another principal.
C5_Witness ==
    /\ ret.op = "check_access"
    /\ ~ret.value
    /\ ResolvedRole(ret.principal) = None
    /\ Len(audit_log) >= 2
    /\ audit_log[Len(audit_log)].role = None
    /\ \E i \in 1..(Len(audit_log) - 1) : audit_log[i].allowed

(***************************************************************************)
(* The calls on an EvaluationEngine                                        *)
(***************************************************************************)
InitEvaluationSpec ==
    /\ InitScheduler({DEFAULT_POLICY})
    /\ InitContext({DEFAULT_WINDOW})
    /\ InitMemory /\ InitLLM /\ InitAccess /\ InitEvaluation
    /\ deployment_mode = DEFAULT_MODE
    /\ pc = NoCalls
    /\ ret = [op |-> "init"]

\* The number of evaluate calls made so far.
RECURSIVE TotalRecords(_)
TotalRecords(agents) ==
    IF agents = {} THEN 0
    ELSE LET a == CHOOSE x \in agents : TRUE
         IN  Len(records[a]) + TotalRecords(agents \ {a})

Evaluate ==
    /\ TotalRecords(DOMAIN records) < MaxRecords
    /\ \E agent_name \in AgentNames, prompt \in EvalTexts, response \in EvalTexts,
          correct \in CorrectArgs :
        /\ EvaluationEvaluate(agent_name, prompt, response, correct)
        /\ UNCHANGED pc
        /\ ret' = [op |-> "evaluate", agent |-> agent_name, response |-> response,
                   value |-> records'[agent_name][Len(records'[agent_name])]]
        /\ UNCHANGED <<schedVars, ctxVars, memVars, llmVars, accessVars>>

Aggregate ==
    \E agent_name \in AgentNames :
        /\ UNCHANGED pc
        /\ ret' = [op |-> "aggregate", agent |-> agent_name,
                   value |-> aggregate(agent_name)]
        /\ UNCHANGED <<schedVars, ctxVars, memVars, llmVars, accessVars, evalVars>>

NextEvaluation == Evaluate \/ Aggregate

SpecEvaluation == InitEvaluationSpec /\ [][NextEvaluation]_vars

\* The non-None values recorded for the agent and the metric.
RecordedValues(agent_name, metric) ==
    LET recs == IF agent_name \in DOMAIN records THEN records[agent_name] ELSE <<>>
    IN  SelectSeq([i \in 1..Len(recs) |-> recs[i].scores[metric]],
                  LAMBDA v : v # NoneScore)

\* C6: aggregate(agent) has an entry for each of the three metrics: the mean of
\* the metric's non-None recorded values, or None when the agent has none (no
\* record at all, or for correctness only records without a ground-truth label).
C6_AggregateHasEveryMetric ==
    \A agent_name \in AgentNames :
        /\ DOMAIN aggregate(agent_name) = EVALUATION_METRICS
        /\ \A metric \in EVALUATION_METRICS :
             aggregate(agent_name)[metric] =
                IF RecordedValues(agent_name, metric) = <<>> THEN NoneScore
                ELSE Mean(RecordedValues(agent_name, metric))

(***************************************************************************)
(* The long-term calls on a MemoryManager                                  *)
(***************************************************************************)
InitMemorySpec ==
    /\ InitScheduler({DEFAULT_POLICY})
    /\ InitContext({DEFAULT_WINDOW})
    /\ InitMemory /\ InitLLM /\ InitAccess /\ InitEvaluation
    /\ deployment_mode = DEFAULT_MODE
    /\ pc = NoCalls
    /\ ret = [op |-> "init"]

RememberLong ==
    \E namespace \in Strs, key \in Strs, value \in Values :
        /\ \/ <<namespace, key>> \in DOMAIN h_written
           \/ Cardinality(DOMAIN h_written) < MaxWrites
        /\ MemoryRememberLong(namespace, key, value)
        /\ UNCHANGED pc
        /\ ret' = [op |-> "remember_long", namespace |-> namespace, key |-> key]
        /\ UNCHANGED <<schedVars, ctxVars, llmVars, accessVars, evalVars>>

RecallLong ==
    \E namespace \in Strs, key \in Strs, default \in Defaults :
        /\ UNCHANGED pc
        /\ ret' = [op |-> "recall_long", namespace |-> namespace, key |-> key,
                   default |-> default,
                   value |-> RecallLongValue(namespace, key, default)]
        /\ UNCHANGED <<schedVars, ctxVars, memVars, llmVars, accessVars, evalVars>>

NextMemory == RememberLong \/ RecallLong

SpecMemory == InitMemorySpec /\ [][NextMemory]_vars

\* C8: recall_long(ns, k) returns the value of the last remember_long(ns, k, v),
\* whatever was written to other pairs since, and the caller's default for a pair
\* never written.
C8_RecallReturnsLastWritten ==
    /\ \A namespace \in Strs, key \in Strs, default \in Defaults :
         RecallLongValue(namespace, key, default) =
            IF <<namespace, key>> \in DOMAIN h_written
            THEN h_written[<<namespace, key>>]
            ELSE default
    /\ ret.op = "recall_long" =>
         ret.value = IF <<ret.namespace, ret.key>> \in DOMAIN h_written
                     THEN h_written[<<ret.namespace, ret.key>>]
                     ELSE ret.default

(***************************************************************************)
(* The calls on an LLMCore                                                 *)
(***************************************************************************)
InitLLMSpec ==
    /\ InitScheduler({DEFAULT_POLICY})
    /\ InitContext({DEFAULT_WINDOW})
    /\ InitMemory /\ InitLLM /\ InitAccess /\ InitEvaluation
    /\ deployment_mode = DEFAULT_MODE
    /\ pc = NoCalls
    /\ ret = [op |-> "init"]

RegisterProvider ==
    \E name \in ProviderNames, handler \in Handlers, set_default \in BOOLEAN :
        /\ LLMRegisterProvider(name, handler, set_default)
        /\ UNCHANGED pc
        /\ ret' = [op |-> "register_provider"]
        /\ UNCHANGED <<schedVars, ctxVars, memVars, accessVars, evalVars>>

\* complete changes nothing of the LLMCore; a handler that raises ends the call.
Complete ==
    \E prompt \in Prompts, provider \in ProviderArgs :
        /\ UNCHANGED pc
        /\ ret' = [op |-> "complete", prompt |-> prompt, provider |-> provider,
                   raised |-> CompleteOutcome(prompt, provider).raised,
                   calls |-> CompleteOutcome(prompt, provider).calls,
                   value |-> CompleteOutcome(prompt, provider).value]
        /\ UNCHANGED <<schedVars, ctxVars, memVars, llmVars, accessVars, evalVars>>

NextLLM == RegisterProvider \/ Complete

SpecLLM == InitLLMSpec /\ [][NextLLM]_vars

Registered(name) == name \notin {None, ""} /\ name \in DOMAIN providers

\* The provider the claim has serve complete(prompt, provider): the requested one
\* when it is named and registered, else the default, else the mock.
ClaimedProvider(provider) ==
    IF Registered(provider) THEN provider
    ELSE IF Registered(default_provider) THEN default_provider
    ELSE "mock"

\* C9: complete uses the handler of the requested provider, else that of the
\* default provider, and the built-in mock (provider 'mock') only when neither is
\* available: a call naming an unregistered provider while a default is
\* registered is served by the default's handler and reports the default's name.
C9_FallsBackToDefault ==
    ret.op = "complete" =>
        /\ ret.calls = IF ClaimedProvider(ret.provider) = "mock" THEN <<>>
                       ELSE <<ClaimedProvider(ret.provider)>>
        /\ ~ret.raised => ret.value.provider = ClaimedProvider(ret.provider)

\* C10: when the handler of the resolved registered provider raises, complete
\* raises too: the handler was called exactly once and no response, in particular
\* no mock response, is returned.
C10_HandlerFailurePropagates ==
    (/\ ret.op = "complete"
     /\ UsesHandler(Chosen(ret.provider))
     /\ HandlerRaises(providers[Chosen(ret.provider)])) =>
        /\ ret.raised
        /\ ret.calls = <<Chosen(ret.provider)>>
        /\ ret.value = NoResult
        /\ ret.value.provider # "mock"

\* C10's case: a complete that fell back to a default provider whose handler raises.
C10_Witness ==
    /\ ret.op = "complete"
    /\ ret.provider = None
    /\ Registered(default_provider)
    /\ HandlerRaises(providers[default_provider])
    /\ ret.raised

(***************************************************************************)
(* KernelLayer, Agent, ApplicationLayer and AIOperatorOS                   *)
(***************************************************************************)
MaxKernelTasks == 2
MaxReassign == 1

DEFAULT_PRIORITY == 0

\* The roles KernelLayer.__init__ seeds, in the order of its define_role calls.
SEED_ROLES == <<
    [role |-> "admin",
     tools |-> <<"policy_analyze", "batch_analyze", "vector_search", "file_read",
                 "file_write", "llm_complete", "workflow_run">>],
    [role |-> "researcher",
     tools |-> <<"policy_analyze", "batch_analyze", "vector_search", "llm_complete">>],
    [role |-> "operator",
     tools |-> <<"policy_analyze", "llm_complete", "workflow_run">>],
    [role |-> "read_only", tools |-> <<"policy_analyze">>]>>

\* The role each agent's constructor assigns to it, in the order in which
\* ApplicationLayer.__init__ constructs the agents.
AGENT_ROLES == <<
    [principal |-> "government_compliance_agent", role |-> "researcher"],
    [principal |-> "music_production_agent", role |-> "operator"],
    [principal |-> "research_agent", role |-> "researcher"],
    [principal |-> "workflow_designer", role |-> "admin"],
    [principal |-> "prompt_library", role |-> "admin"]>>

\* The calls made on the ToolAccessManager while the kernel is constructed.
KernelAccessHistory ==
    [i \in 1..Len(SEED_ROLES) |->
        [op |-> "define_role", role |-> SEED_ROLES[i].role,
         tools |-> SEED_ROLES[i].tools]]
    \o [i \in 1..Len(AGENT_ROLES) |->
        [op |-> "assign_role", principal |-> AGENT_ROLES[i].principal,
         role |-> AGENT_ROLES[i].role]]

InitKernelAccess ==
    /\ roles = [r \in {SEED_ROLES[i].role : i \in 1..Len(SEED_ROLES)} |->
                  Range(SEED_ROLES[CHOOSE i \in 1..Len(SEED_ROLES) :
                                       SEED_ROLES[i].role = r].tools)]
    /\ principals = [p \in {AGENT_ROLES[i].principal : i \in 1..Len(AGENT_ROLES)} |->
                       AGENT_ROLES[CHOOSE i \in 1..Len(AGENT_ROLES) :
                                       AGENT_ROLES[i].principal = p].role]
    /\ audit_log = <<>>
    /\ h_access = KernelAccessHistory

\* PromptLibrary._BUILTIN_PROMPTS; key spells the name character by character.
BUILTIN_PROMPTS == <<
    [key |-> <<"p", "o", "l", "i", "c", "y", "_", "s", "u", "m", "m", "a", "r", "y">>,
     name |-> "policy_summary",
     template |-> "Summarise the key data-sharing and technology provisions in the following policy document:\n\n{text}"],
    [key |-> <<"c", "o", "m", "p", "l", "i", "a", "n", "c", "e", "_", "c", "h", "e", "c", "k">>,
     name |-> "compliance_check",
     template |-> "Identify all regulatory obligations and compliance requirements in the following text:\n\n{text}"],
    [key |-> <<"t", "e", "c", "h", "_", "e", "x", "t", "r", "a", "c", "t", "i", "o", "n">>,
     name |-> "tech_extraction",
     template |-> "List every technology, platform, and service mentioned in this policy document:\n\n{text}"],
    [key |-> <<"m", "u", "s", "i", "c", "_", "b", "r", "i", "e", "f">>,
     name |-> "music_brief",
     template |-> "Create a concise creative brief for the following music project: {project_description}"],
    [key |-> <<"r", "e", "s", "e", "a", "r", "c", "h", "_", "q", "u", "e", "r", "y">>,
     name |-> "research_query",
     template |-> "Research and summarise information about: {topic}"]>>
PROMPTS_NAMESPACE == <<"p", "r", "o", "m", "p", "t", "s">>

\* The value save_prompt stores for a built-in prompt.
PromptValue(p) == [name |-> p.name, template |-> p.template, tags |-> <<>>]

\* PromptLibrary.__init__ saves the built-in prompts to long-term memory and
\* indexes each template under the id f'prompt::{name}'.
InitKernelMemory ==
    /\ vector_records = [i \in 1..Len(BUILTIN_PROMPTS) |->
                           [id |-> <<"prompt", BUILTIN_PROMPTS[i].name>>,
                            text |-> BUILTIN_PROMPTS[i].template,
                            metadata |-> [type |-> "prompt",
                                          name |-> BUILTIN_PROMPTS[i].name]]]
    /\ tables = [t \in TableNames |->
                   [k \in {CompositeKey(PROMPTS_NAMESPACE, p.key) :
                              p \in Range(BUILTIN_PROMPTS)} |->
                      LET p == CHOOSE b \in Range(BUILTIN_PROMPTS) :
                                   CompositeKey(PROMPTS_NAMESPACE, b.key) = k
                      IN  [namespace |-> PROMPTS_NAMESPACE, key |-> p.key,
                           value |-> PromptValue(p)]]]
    /\ h_written = [w \in {<<PROMPTS_NAMESPACE, p.key>> : p \in Range(BUILTIN_PROMPTS)} |->
                      PromptValue(CHOOSE b \in Range(BUILTIN_PROMPTS) : b.key = w[2])]

\* Agent._required_tool and its overrides.
RequiredTool(agent_name) ==
    IF agent_name \in {"government_compliance_agent", "research_agent"}
    THEN "policy_analyze"
    ELSE "llm_complete"

\* A mutant of Agent.run: the 'user' entry is pushed before the access check.
AgentRunOutcomePushFirst(agent_name, prompt) ==
    LET tool == RequiredTool(agent_name)
        llm_result == CompleteOutcome(prompt, None)
    IN  IF ~Allowed(agent_name, tool)
        THEN [checked |-> TRUE, raised |-> FALSE,
              pushes |-> <<ContextEntry("user", prompt)>>, evaluated |-> FALSE,
              completions |-> <<>>,
              result |-> [agent |-> agent_name,
                          error |-> <<"Access denied", agent_name, tool>>]]
        ELSE IF llm_result.raised
        THEN [checked |-> TRUE, raised |-> TRUE,
              pushes |-> <<ContextEntry("user", prompt)>>, evaluated |-> FALSE,
              completions |-> <<[prompt |-> prompt, calls |-> llm_result.calls]>>,
              result |-> [agent |-> agent_name]]
        ELSE [checked |-> TRUE, raised |-> FALSE,
              pushes |-> <<ContextEntry("user", prompt),
                           ContextEntry("assistant", llm_result.value.response)>>,
              evaluated |-> TRUE,
              completions |-> <<[prompt |-> prompt, calls |-> llm_result.calls]>>,
              result |-> [agent |-> agent_name,
                          response |-> llm_result.value.response,
                          provider |-> llm_result.value.provider]]

\* What Agent.run does for an agent whose _handle is one llm.complete call
\* (GovernmentComplianceAgent, MusicProductionAgent): the context entries it pushes,
\* whether it evaluates the turn, the llm.complete calls it makes (each with the
\* handlers that call invoked), whether it raises, and the dict it returns. The
\* keyword findings of the result, which no kernel service reads, are left out.
AgentRunOutcome(agent_name, prompt) ==
    LET tool == RequiredTool(agent_name)
        llm_result == CompleteOutcome(prompt, None)
    IN  IF ~Allowed(agent_name, tool)
        THEN [checked |-> TRUE, raised |-> FALSE, pushes |-> <<>>, evaluated |-> FALSE,
              completions |-> <<>>,
              result |-> [agent |-> agent_name,
                          error |-> <<"Access denied", agent_name, tool>>]]
        ELSE IF llm_result.raised
        THEN [checked |-> TRUE, raised |-> TRUE,
              pushes |-> <<ContextEntry("user", prompt)>>, evaluated |-> FALSE,
              completions |-> <<[prompt |-> prompt, calls |-> llm_result.calls]>>,
              result |-> [agent |-> agent_name]]
        ELSE [checked |-> TRUE, raised |-> FALSE,
              pushes |-> <<ContextEntry("user", prompt),
                           ContextEntry("assistant", llm_result.value.response)>>,
              evaluated |-> TRUE,
              completions |-> <<[prompt |-> prompt, calls |-> llm_result.calls]>>,
              result |-> [agent |-> agent_name,
                          response |-> llm_result.value.response,
                          provider |-> llm_result.value.provider]]

\* ApplicationLayer.dispatch: an unknown agent name yields an error dict.
DispatchOutcome(agent_name, prompt) ==
    IF agent_name \notin AGENT_REGISTRY
    THEN [checked |-> FALSE, raised |-> FALSE, pushes |-> <<>>, evaluated |-> FALSE,
          completions |-> <<>>,
          result |-> [error |-> <<"Unknown agent", agent_name>>]]
    ELSE AgentRunOutcome(agent_name, prompt)

\* The sessions after the pushes of one Agent.run, made in order.
RECURSIVE PushedAll(_, _, _)
PushedAll(sess, session_id, entries) ==
    IF entries = <<>> THEN sess
    ELSE PushedAll(PushedSessions(sess, session_id, Head(entries).role,
                                  Head(entries).content),
                   session_id, Tail(entries))

RunAgents == {"government_compliance_agent", "music_production_agent",
              "unknown_agent"}
RunPrompts == {T_HI, T_MAYBE}
KernelWindows == {1, 2, DEFAULT_WINDOW}

InitKernel ==
    /\ InitScheduler(POLICIES)
    /\ InitContext(KernelWindows)
    /\ InitKernelMemory /\ InitLLM /\ InitKernelAccess /\ InitEvaluation
    /\ deployment_mode = DEFAULT_MODE
    /\ pc = NoCalls
    /\ ret = [op |-> "init"]

\* AIOperatorOS.run: submit, next_task (its result is discarded), dispatch, and,
\* unless dispatch raised, mark_done of the task that was submitted.
Run ==
    /\ Len(tasks) < MaxKernelTasks
    /\ \E agent_name \in RunAgents, prompt \in RunPrompts :
        \E out \in {DispatchOutcome(agent_name, prompt)} :
            LET t == Len(tasks) + 1
                heap1 == SubmittedTasks(tasks, t, agent_name, [prompt |-> prompt],
                                        DEFAULT_PRIORITY)
                q1 == SubmittedQueue(queue, tasks)
            IN  /\ queue' = NextTaskQueue(q1, heap1)
                /\ tasks' = IF out.raised THEN heap1
                            ELSE MarkedDoneTasks(heap1, completed, t, out.result)
                /\ completed' = IF out.raised THEN completed
                                ELSE MarkedDoneLog(completed, t)
                /\ h_dispatched' = LastDispatched(q1, heap1)
                /\ UNCHANGED policy
                /\ IF out.checked
                   THEN AccessCheckAccess(agent_name, RequiredTool(agent_name))
                   ELSE UNCHANGED accessVars
                /\ sessions' = PushedAll(sessions, agent_name, out.pushes)
                /\ h_pushed' = IF out.pushes = <<>> THEN h_pushed
                               ELSE [h_pushed EXCEPT ![agent_name] = @ \o out.pushes]
                /\ UNCHANGED window_size
                /\ IF out.evaluated
                   THEN EvaluationEvaluate(agent_name, prompt, out.result.response,
                                           None)
                   ELSE UNCHANGED evalVars
                /\ UNCHANGED pc
                /\ ret' = [op |-> "run", agent |-> agent_name, prompt |-> prompt,
                           task |-> t, raised |-> out.raised, result |-> out.result,
                           completions |-> out.completions]
                /\ UNCHANGED <<memVars, llmVars>>

\* kernel.scheduler.submit called directly: a task left in the queue, as the steps
\* that schedule_workflow submits are.
KernelSubmit ==
    \E priority \in Priorities :
        /\ Len(tasks) < MaxKernelTasks
        /\ SchedulerSubmit(Len(tasks) + 1, "research_agent", [prompt |-> T_HI],
                           priority)
        /\ UNCHANGED pc
        /\ ret' = [op |-> "submit", value |-> Len(tasks) + 1]
        /\ UNCHANGED <<ctxVars, memVars, llmVars, accessVars, evalVars>>

\* AIOperatorOS.register_llm_provider, called as the tests call it (set_default=True)
\* to register the provider or to replace its handler.
RegisterLLMProvider ==
    \E handler \in Handlers :
        /\ "echo" \in DOMAIN providers => providers["echo"] # handler
        /\ LLMRegisterProvider("echo", handler, TRUE)
        /\ UNCHANGED pc
        /\ ret' = [op |-> "register_llm_provider"]
        /\ UNCHANGED <<schedVars, ctxVars, memVars, accessVars, evalVars>>

\* kernel.access.assign_role on an agent of the registry, called to change its role.
Reassignments(h) ==
    Len(SelectSeq(h, LAMBDA c : c.op = "assign_role")) - Len(AGENT_ROLES)

KernelAssignRole ==
    \E role \in {"read_only", "operator"} :
        /\ Reassignments(h_access) < MaxReassign
        /\ principals["music_production_agent"] # role
        /\ AccessAssignRole("music_production_agent", role)
        /\ UNCHANGED pc
        /\ ret' = [op |-> "assign_role"]
        /\ UNCHANGED <<schedVars, ctxVars, memVars, llmVars, evalVars>>

NextKernel == Run \/ KernelSubmit \/ RegisterLLMProvider \/ KernelAssignRole

SpecKernel == InitKernel /\ [][NextKernel]_vars

\* A step is a run call, by an agent of the registry whose role permits its
\* required tool, that returned normally.
PermittedRunStep ==
    /\ ret'.op = "run"
    /\ Len(tasks') = Len(tasks) + 1
    /\ ret'.agent \in AGENT_REGISTRY
    /\ Allowed(ret'.agent, RequiredTool(ret'.agent))
    /\ ~ret'.raised

\* The context of the agent's session.
ContextOf(sess, agent_name) ==
    IF agent_name \in DOMAIN sess THEN sess[agent_name] ELSE <<>>

\* The two entries of the turn that ret' reports.
TurnEntries ==
    <<ContextEntry("user", ret'.prompt),
      ContextEntry("assistant", ret'.result.response)>>

\* C7 as stated: a permitted run that returns normally leaves queue_length as it
\* was, lengthens completed_tasks by one, and appends the 'user' entry and the
\* 'assistant' entry to the agent's context; one run on a fresh kernel leaves a
\* context of exactly 2 entries.
C7_RunAppendsTwoEntries ==
    [][PermittedRunStep =>
        /\ Len(queue') = Len(queue)
        /\ Len(completed') = Len(completed) + 1
        /\ ContextOf(sessions', ret'.agent) =
              ContextOf(sessions, ret'.agent) \o TurnEntries
        /\ tasks = <<>> =>
              /\ Len(queue') = 0
              /\ Len(completed') = 1
              /\ Len(ContextOf(sessions', ret'.agent)) = 2]_vars

\* C7, amended: a permitted run that returns normally leaves queue_length as it
\* was, lengthens completed_tasks by one, and pushes the 'user' entry and then the
\* 'assistant' entry, so that the agent's context becomes the last W entries of
\* its previous context followed by the two (W the window size); one run on a
\* fresh kernel leaves queue_length 0, one completed task and min(2, W) entries.
C7_RunPushesTwoEntries ==
    [][PermittedRunStep =>
        /\ Len(queue') = Len(queue)
        /\ Len(completed') = Len(completed) + 1
        /\ ContextOf(sessions', ret'.agent) =
              LastN(ContextOf(sessions, ret'.agent) \o TurnEntries,
                    Min(Len(ContextOf(sessions, ret'.agent)) + 2, window_size))
        /\ tasks = <<>> =>
              /\ Len(queue') = 0
              /\ Len(completed') = 1
              /\ Len(ContextOf(sessions', ret'.agent)) = Min(2, window_size)]_vars

\* C7's case: the second permitted run of an agent, on a window of two entries,
\* has evicted the first turn and left the second.
C7_Witness ==
    /\ ret.op = "run"
    /\ ~ret.raised
    /\ ret.agent \in AGENT_REGISTRY
    /\ "response" \in DOMAIN ret.result
    /\ window_size = 2
    /\ Len(h_pushed[ret.agent]) = 4
    /\ sessions[ret.agent] = <<ContextEntry("user", ret.prompt),
                               ContextEntry("assistant", ret.result.response)>>
    /\ Len(completed) = 2
    /\ queue = <<>>

\* A step is a run call by an agent of the registry whose role does not grant its
\* required tool.
DeniedRunStep ==
    /\ ret'.op = "run"
    /\ Len(tasks') = Len(tasks) + 1
    /\ ret'.agent \in AGENT_REGISTRY
    /\ ~Allowed(ret'.agent, RequiredTool(ret'.agent))

\* C11: a run of an agent whose role does not grant its required tool returns a
\* dict with an 'error' entry without raising, appends exactly one audit entry,
\* with allowed = false, and leaves the session contexts, the evaluation records
\* and the providers as they were, making no completion call.
C11_DeniedRunTouchesNothing ==
    [][DeniedRunStep =>
        /\ ~ret'.raised
        /\ "error" \in DOMAIN ret'.result
        /\ audit_log' = Append(audit_log,
                               [principal |-> ret'.agent,
                                tool |-> RequiredTool(ret'.agent),
                                role |-> ResolvedRole(ret'.agent),
                                allowed |-> FALSE])
        /\ sessions' = sessions
        /\ records' = records
        /\ providers' = providers /\ default_provider' = default_provider
        /\ ret'.completions = <<>>]_vars

\* C11's case: a denied run of the music agent, made after a permitted turn of the
\* agent had put entries in its context and in its evaluation records.
C11_Witness ==
    /\ ret.op = "run"
    /\ ret.agent = "music_production_agent"
    /\ "error" \in DOMAIN ret.result
    /\ audit_log # <<>>
    /\ ~audit_log[Len(audit_log)].allowed
    /\ principals["music_production_agent"] = "read_only"
    /\ "music_production_agent" \in DOMAIN sessions
    /\ sessions["music_production_agent"] # <<>>
    /\ "music_production_agent" \in DOMAIN records

\* C12, first part: every role's permitted-tool set is the union of all tool lists
\* ever passed to define_role for it.
RolesAreUnions ==
    \A role \in RoleNames : RoleTools(role) = EverDefined(h_access, role)

\* C12, second part: no call removes a role or a tool from a role, and an access
\* that is allowed stays allowed while the principal's role assignment is unchanged.
RolesOnlyGrow ==
    /\ \A role \in DOMAIN roles : role \in DOMAIN roles' /\ roles[role] \subseteq roles'[role]
    /\ \A principal \in Principals, tool \in ToolNames :
         (/\ tool \in RoleTools(ResolvedRole(principal))
          /\ ResolvedRole(principal) # None
          /\ principal \in DOMAIN principals'
          /\ principals'[principal] = principals[principal])
         => tool \in roles'[principals'[principal]]

\* C12: define_role is additive: a role's tool set is the union of all tool lists
\* ever passed for it, no define_role or assign_role removes a tool from a role, and
\* an allowed access stays allowed while the principal's role is unchanged.
C12_DefineRoleIsAdditive == []RolesAreUnions /\ [][RolesOnlyGrow]_vars

\* C12's case: a role defined twice with different tool lists holds both tools,
\* and a principal assigned to it before the second define_role is still allowed
\* the tool of the first.
C12_Witness ==
    /\ Len(h_access) >= 3
    /\ h_access[1].op = "define_role" /\ h_access[1].tools = <<"policy_analyze">>
    /\ h_access[2].op = "assign_role" /\ h_access[2].role = h_access[1].role
    /\ h_access[3].op = "define_role" /\ h_access[3].tools = <<"file_write">>
    /\ h_access[3].role = h_access[1].role
    /\ ResolvedRole(h_access[2].principal) = h_access[1].role
    /\ Allowed(h_access[2].principal, "policy_analyze")
    /\ Allowed(h_access[2].principal, "file_write")

\* C13: check_access(p, t) is true exactly when t is in permitted_tools(p), and
\* permitted_tools(p) is the tool set of p's current role: empty for a principal
\* with no assigned role or whose assigned role was never defined.
C13_CheckAccessIsPermittedTools ==
    /\ \A principal \in Principals :
         /\ \A tool \in ToolNames :
              Allowed(principal, tool) = (tool \in permitted_tools(principal))
         /\ permitted_tools(principal) =
              IF LastAssigned(h_access, principal) = None THEN {}
              ELSE EverDefined(h_access, LastAssigned(h_access, principal))
    /\ ret.op = "permitted_tools" =>
         /\ \A tool \in ToolNames :
              (tool \in ret.value) = ExpectedAccess(h_access, ret.principal, tool)
         /\ ret.principal \notin DOMAIN principals => ret.value = {}
         /\ (/\ ret.principal \in DOMAIN principals
             /\ principals[ret.principal] \notin DOMAIN roles) => ret.value = {}
    /\ ret.op = "check_access" => ret.value = (ret.tool \in permitted_tools(ret.principal))

\* C13's case: permitted_tools of a principal whose assigned role was never
\* defined, while another role grants tools, returns nothing.
C13_Witness ==
    /\ ret.op = "permitted_tools"
    /\ ret.principal \in DOMAIN principals
    /\ principals[ret.principal] \notin DOMAIN roles
    /\ roles # <<>>
    /\ ret.value = {}

\* C14: the default provider is the first provider ever registered unless some
\* registration passed set_default = true, and then the provider of the most recent
\* such registration; it is absent exactly when no provider has been registered,
\* and otherwise names a registered provider.
C14_DefaultProviderByHistory ==
    /\ default_provider = IF h_last_default # None THEN h_last_default ELSE h_first
    /\ (default_provider = None) = (providers = <<>>)
    /\ default_provider # None => default_provider \in DOMAIN providers

\* C14's case: two providers are registered, the second one registered without
\* set_default, and the default is still the first.
C14_Witness ==
    /\ DOMAIN providers = ProviderNames
    /\ h_last_default = None
    /\ h_first = "other"
    /\ default_provider = "other"
    /\ ret.op = "register_provider"

\* A step is a next_task call that returned a task.
DispatchStep ==
    /\ ret'.op = "next_task"
    /\ ret'.value # NoTask
    /\ queue' # queue

\* C15: under round_robin, after next_task has returned a task of agent X, the
\* next next_task call returns a task of a different agent whenever a task of a
\* different agent is queued.
C15_RoundRobinRotates ==
    [][(/\ policy = "round_robin"
        /\ DispatchStep
        /\ h_dispatched # NoTask
        /\ \E i \in 1..Len(queue) :
             tasks[queue[i]].agent_name # tasks[h_dispatched].agent_name)
       => tasks[ret'.value].agent_name # tasks[h_dispatched].agent_name]_vars


\* A log is retained when it is a prefix of the log after the step: no entry is
\* removed and none changes place.
LogRetained ==
    /\ Len(completed') >= Len(completed)
    /\ \A i \in 1..Len(completed) : completed'[i] = completed[i]

\* C16: mark_done(task, result) sets the task's status to 'completed', stores the
\* result and appends the task to the completed log, which grows by exactly one
\* entry per call, also when the task is already in the log; no scheduler operation
\* removes or reorders log entries, and only mark_done lengthens the log.
C16_MarkDoneAppendsToLog ==
    [][/\ LogRetained
       /\ IF ret'.op = "mark_done"
          THEN /\ completed' = Append(completed, ret'.task)
               /\ Len(completed') = Len(completed) + 1
               /\ tasks'[ret'.task].status = "completed"
               /\ tasks'[ret'.task].result = ret'.result
               /\ completed_tasks'[Len(completed')].status = "completed"
          ELSE completed' = completed]_vars

\* mark_done was called twice for one task: the log holds it twice, below a task
\* that is still queued.
C16_Witness ==
    /\ ret.op = "mark_done"
    /\ Len(completed) = 2
    /\ completed[1] = completed[2]
    /\ completed[2] = ret.task
    /\ tasks[ret.task].status = "completed"
    /\ queue # <<>>


\* C20: after any sequence of push, clear and get_context calls active_sessions
\* returns exactly the sessions whose window holds an entry, which are the sessions
\* pushed to since their last clear; a session that get_context created, or that
\* clear emptied, is a key of the dict and is not listed.
C20_ActiveSessionsHoldEntries ==
    /\ active_sessions = {sid \in DOMAIN h_pushed : ExpectedWindow(sid) # <<>>}
    /\ \A sid \in SessionIds :
         sid \in active_sessions <=> Len(GetContextValue(sid)) >= 1
    /\ ret.op = "active_sessions" =>
         ret.value = {sid \in DOMAIN h_pushed : ExpectedWindow(sid) # <<>>}

\* active_sessions returned one session while the dict holds a second key whose
\* window is empty.
C20_Witness ==
    /\ ret.op = "active_sessions"
    /\ DOMAIN sessions = SessionIds
    /\ \E sid \in SessionIds :
         /\ sessions[sid] = <<>>
         /\ ret.value = SessionIds \ {sid}


(***************************************************************************)
(* The calls on a RelationalStore                                          *)
(***************************************************************************)
StoreTables == {"users", "logs"}
RecordIds == {"u1", "u2"}
\* The dicts callers insert, the empty dict among them.
Datas == {{}, {<<"role", "admin">>}, {<<"role", "researcher">>}}
Filters == {{}, {<<"role", "admin">>}, {<<"role", None>>}}

InitStoreSpec ==
    /\ InitScheduler({DEFAULT_POLICY})
    /\ InitContext({DEFAULT_WINDOW})
    /\ InitLLM /\ InitAccess /\ InitEvaluation
    /\ tables = <<>>
    /\ vector_records = <<>>
    /\ h_written = <<>>
    /\ deployment_mode = DEFAULT_MODE
    /\ pc = NoCalls
    /\ ret = [op |-> "init"]

StoreInsertCall ==
    \E table \in StoreTables, record_id \in RecordIds, data \in Datas :
        /\ tables' = StoreInsert(table, record_id, data)
        /\ h_written' = [k \in DOMAIN h_written \cup {<<table, record_id>>} |->
                            IF k = <<table, record_id>> THEN data ELSE h_written[k]]
        /\ UNCHANGED pc
        /\ ret' = [op |-> "insert", table |-> table, id |-> record_id]
        /\ UNCHANGED <<deployment_mode, vector_records, schedVars,
                       ctxVars, llmVars, accessVars, evalVars>>

StoreGetCall ==
    \E table \in StoreTables, record_id \in RecordIds :
        /\ tables' = TablesWith(tables, table)
        /\ UNCHANGED pc
        /\ ret' = [op |-> "get", table |-> table, id |-> record_id,
                   value |-> StoreFind(table, record_id)]
        /\ UNCHANGED <<deployment_mode, vector_records, h_written, schedVars,
                       ctxVars, llmVars,
                       accessVars, evalVars>>

StoreQueryCall ==
    \E table \in StoreTables, filters \in Filters :
        /\ tables' = TablesWith(tables, table)
        /\ UNCHANGED pc
        /\ ret' = [op |-> "query", table |-> table, filters |-> filters,
                   value |-> StoreQuery(table, filters)]
        /\ UNCHANGED <<deployment_mode, vector_records, h_written, schedVars,
                       ctxVars, llmVars,
                       accessVars, evalVars>>

StoreDeleteCall ==
    \E table \in StoreTables, record_id \in RecordIds :
        /\ tables' = StoreDeleted(table, record_id)
        /\ h_written' = [k \in (DOMAIN h_written) \ {<<table, record_id>>} |->
                            h_written[k]]
        /\ UNCHANGED pc
        /\ ret' = [op |-> "delete", table |-> table, id |-> record_id,
                   value |-> StoreDelete(table, record_id)]
        /\ UNCHANGED <<deployment_mode, vector_records, schedVars,
                       ctxVars, llmVars, accessVars, evalVars>>

NextStore == StoreInsertCall \/ StoreGetCall \/ StoreQueryCall \/ StoreDeleteCall

SpecStore == InitStoreSpec /\ [][NextStore]_vars

\* The record last inserted under (table, id) and not deleted since, as an
\* Optional.
ExpectedRecord(table, record_id) ==
    IF <<table, record_id>> \in DOMAIN h_written
    THEN <<h_written[<<table, record_id>>]>>
    ELSE <<>>

\* get and delete answer for the record stored before the call; insert and delete
\* leave every other (table, id) as it was.
StoreCallsAnswer ==
    /\ ret'.op = "get" =>
         /\ ret'.value = ExpectedRecord(ret'.table, ret'.id)
         /\ \A t \in StoreTables, r \in RecordIds :
              StoreFind(t, r)' = StoreFind(t, r)
    /\ ret'.op = "query" =>
         \A t \in StoreTables, r \in RecordIds : StoreFind(t, r)' = StoreFind(t, r)
    /\ \A table \in StoreTables, record_id \in RecordIds :
         (ret'.op = "delete" /\ ret'.table = table /\ ret'.id = record_id) =>
            /\ ret'.value = (ExpectedRecord(table, record_id) # <<>>)
            /\ StoreFind(table, record_id)' = <<>>
            /\ ~StoreDelete(table, record_id)'
            /\ \A t \in StoreTables, r \in RecordIds :
                 <<t, r>> # <<table, record_id>> => StoreFind(t, r)' = StoreFind(t, r)
    /\ \A table \in StoreTables, record_id \in RecordIds :
         (ret'.op = "insert" /\ ret'.table = table /\ ret'.id = record_id) =>
            /\ StoreFind(table, record_id)' # <<>>
            /\ \A t \in StoreTables, r \in RecordIds :
                 <<t, r>> # <<table, record_id>> => StoreFind(t, r)' = StoreFind(t, r)

\* C19: delete(table, id) returns true exactly when a record is stored under
\* (table, id) at that moment, and removes it: the first delete after an insert
\* returns true, a further one without an insert in between false, and get then
\* returns None; get after insert returns the record inserted last.
C19_DeleteTrueOncePerInsert ==
    /\ [](\A t \in StoreTables, r \in RecordIds :
            StoreFind(t, r) = ExpectedRecord(t, r))
    /\ [][StoreCallsAnswer]_vars

\* delete returned true for a stored empty record while another record stays
\* stored in the same table.
C19_Witness ==
    /\ ret.op = "delete"
    /\ ret.value
    /\ ~StoreHas(ret.table, ret.id)
    /\ \E r \in RecordIds : StoreHas(ret.table, r) /\ StoreGet(ret.table, r) = {}


(***************************************************************************)
(* The calls on a VectorStore                                              *)
(***************************************************************************)
DEFAULT_TOP_K == 5
DocIds == {"doc1", "doc2", "doc3"}
TopKs == {-1, 0, 1, 2, DEFAULT_TOP_K}

InitVectorSpec ==
    /\ InitScheduler({DEFAULT_POLICY})
    /\ InitContext({DEFAULT_WINDOW})
    /\ InitMemory /\ InitLLM /\ InitAccess /\ InitEvaluation
    /\ deployment_mode = DEFAULT_MODE
    /\ pc = NoCalls
    /\ ret = [op |-> "init"]

VectorUpsertCall ==
    \E doc_id \in DocIds, text \in VecTexts :
        /\ vector_records' = Upserted(vector_records, doc_id, text, None)
        /\ UNCHANGED pc
        /\ ret' = [op |-> "upsert", id |-> doc_id, text |-> text]
        /\ UNCHANGED <<deployment_mode, tables, h_written, schedVars, ctxVars, llmVars,
                       accessVars, evalVars>>

VectorSearchCall ==
    \E query \in VecTexts, top_k \in TopKs :
        /\ UNCHANGED pc
        /\ ret' = [op |-> "search", query |-> query, top_k |-> top_k,
                   value |-> Search(vector_records, query, top_k)]
        /\ UNCHANGED <<memVars, schedVars, ctxVars, llmVars, accessVars, evalVars>>

VectorDeleteCall ==
    \E doc_id \in DocIds :
        /\ vector_records' = VectorDeleted(vector_records, doc_id)
        /\ UNCHANGED pc
        /\ ret' = [op |-> "delete", id |-> doc_id,
                   value |-> VectorDelete(vector_records, doc_id)]
        /\ UNCHANGED <<deployment_mode, tables, h_written, schedVars, ctxVars, llmVars,
                       accessVars, evalVars>>

NextVector == VectorUpsertCall \/ VectorSearchCall \/ VectorDeleteCall

SpecVector == InitVectorSpec /\ [][NextVector]_vars

\* Two texts have the same normalised term-frequency vector: the same tokens, in
\* the same proportions.
SameDirection(text1, text2) ==
    LET c1 == TermCounts(text1)
        c2 == TermCounts(text2)
    IN  /\ DOMAIN c1 = DOMAIN c2
        /\ \A k, j \in DOMAIN c1 : c1[k] * c2[j] = c1[j] * c2[k]

\* The place of the document that a self-query for the document at place i ranks
\* first: the earliest document with the same normalised vector or, when the
\* document has no word and every score is 0, the earliest document.
FirstSameDirection(recs, i) ==
    IF TermCounts(recs[i].text) = <<>> THEN 1
    ELSE CHOOSE e \in 1..i :
            /\ SameDirection(recs[e].text, recs[i].text)
            /\ \A f \in 1..(e - 1) : ~SameDirection(recs[f].text, recs[i].text)

PlaceOf(doc_id) == IndexOfDoc(vector_records, doc_id)

\* The dot product of the L2-normalised term-frequency vectors of two texts.
DotOfNormalised(query, text) ==
    LET q == TermCounts(query)
        v == TermCounts(text)
        both == DOMAIN q \cap DOMAIN v
    IN  <<SumOver([k \in both |-> q[k] * v[k]], both),
          NormSquared(q) * NormSquared(v)>>

ExpectedScores == [query \in VecTexts, text \in VecTexts |-> DotOfNormalised(query, text)]
ExpectedScore(query, text) == ExpectedScores[query, text]

\* What a search with top_k >= 0 returns.
SearchReturnsTopK ==
    (ret'.op = "search" /\ ret'.top_k >= 0) =>
        LET hits == ret'.value
            hit_ids == {hits[i].id : i \in 1..Len(hits)}
        IN  /\ Len(hits) = Min(ret'.top_k, Len(vector_records))
            /\ vector_records' = vector_records
            /\ \A i \in 1..Len(hits) :
                 /\ HasDoc(vector_records, hits[i].id)
                 /\ hits[i].text = vector_records[PlaceOf(hits[i].id)].text
                 /\ hits[i].score = ExpectedScore(ret'.query, hits[i].text)
            /\ \A i, j \in 1..Len(hits) :
                 i < j =>
                    /\ ScoreGeq(hits[i].score, hits[j].score)
                    /\ hits[i].id # hits[j].id
                    /\ ScoreEq(hits[i].score, hits[j].score)
                         => PlaceOf(hits[i].id) < PlaceOf(hits[j].id)
            /\ \A i \in 1..Len(hits), p \in 1..Len(vector_records) :
                 vector_records[p].id \notin hit_ids =>
                    LET left == ExpectedScore(ret'.query, vector_records[p].text)
                    IN  /\ ScoreGeq(hits[i].score, left)
                        /\ ScoreEq(hits[i].score, left) => PlaceOf(hits[i].id) < p

\* What upsert and delete do to the index.
IndexKeepsOneEntryPerId ==
    /\ \A doc_id \in DocIds :
         (ret'.op = "upsert" /\ ret'.id = doc_id) =>
            /\ HasDoc(vector_records', doc_id)
            /\ vector_records'[IndexOfDoc(vector_records', doc_id)].text = ret'.text
            /\ IF HasDoc(vector_records, doc_id)
               THEN /\ Len(vector_records') = Len(vector_records)
                    /\ \A p \in 1..Len(vector_records) :
                         vector_records'[p].id = vector_records[p].id
                    /\ \A p \in 1..Len(vector_records) :
                         vector_records[p].id # doc_id =>
                            vector_records'[p] = vector_records[p]
               ELSE SubSeq(vector_records', 1, Len(vector_records)) = vector_records
                    /\ Len(vector_records') = Len(vector_records) + 1
    /\ \A doc_id \in DocIds :
         (ret'.op = "delete" /\ ret'.id = doc_id) =>
            /\ ~HasDoc(vector_records', doc_id)
            /\ ret'.value = HasDoc(vector_records, doc_id)
            /\ \A other \in DocIds \ {doc_id} :
                 HasDoc(vector_records', other) = HasDoc(vector_records, other)

\* C18: search(query, k) with k >= 0 over an index of n documents returns exactly
\* min(k, n) hits, the k best, in non-increasing order of score, the score being
\* the dot product of the L2-normalised term-frequency vectors of query and
\* document, documents of equal score in insertion order; the index holds at most
\* one entry per id, an upsert of an existing id replaces its text in place and a
\* deleted id is gone.
C18_SearchReturnsTopKByScore ==
    /\ [](\A p, r \in 1..Len(vector_records) :
            vector_records[p].id = vector_records[r].id => p = r)
    /\ [][SearchReturnsTopK /\ IndexKeepsOneEntryPerId]_vars

\* A search over three documents, not inserted in the order of their ids, returned
\* two hits of equal non-zero score and left out the document of lower score.
C18_Witness ==
    /\ ret.op = "search"
    /\ ret.top_k = 2
    /\ Len(vector_records) = 3
    /\ vector_records[1].id = "doc3"
    /\ Len(ret.value) = 2
    /\ ret.value[1].score[1] > 0
    /\ ScoreEq(ret.value[1].score, ret.value[2].score)
    /\ ret.value[1].text # ret.value[2].text
    /\ \E p \in 1..3 :
         /\ vector_records[p].id \notin {ret.value[1].id, ret.value[2].id}
         /\ ~ScoreGeq(ExpectedScore(ret.query, vector_records[p].text),
                      ret.value[2].score)


\* C21 as stated: a session listed by active_sessions before clear is still listed
\* right after it.
C21_ClearedSessionStaysListed ==
    [][(ret'.op = "clear" /\ ret'.h_listed) => ret'.session \in active_sessions']_vars

\* C21 amended: clear(session) empties the session's window, so that get_context
\* returns the empty sequence, and keeps the session as a key of the sessions
\* dict, but the session is not listed by active_sessions right after the clear,
\* whether it was listed before or not; the other sessions are listed as before,
\* and a push to the session lists it again.
C21_ClearedSessionIsUnlisted ==
    [][/\ \A sid \in SessionIds :
            (ret'.op = "clear" /\ ret'.session = sid) =>
                /\ ret'.h_listed = (sid \in active_sessions)
                /\ sid \in DOMAIN sessions'
                /\ GetContextValue(sid)' = <<>>
                /\ sid \notin active_sessions'
                /\ active_sessions' = active_sessions \ {sid}
       /\ (ret'.op = "push" /\ window_size >= 1) =>
            ret'.session \in active_sessions']_vars

\* clear was called on a session that was listed: it is still a key of the dict,
\* its window is empty and only the other session is listed.
C21_Witness ==
    /\ ret.op = "clear"
    /\ ret.h_listed
    /\ ret.session \in DOMAIN sessions
    /\ sessions[ret.session] = <<>>
    /\ active_sessions = SessionIds \ {ret.session}


\* The sentences of a lowered text: the non-empty segments between runs of '.',
\* '!' and '?', by where they start.
SentencesOf(t) == {st \in SentenceStarts(t) : Sentence(t, st) # <<>>}

\* (sentences with an uncertainty marker) / (sentences), 0 without sentences.
MarkedFraction(text) ==
    LET t == LowerText(text)
    IN  IF SentencesOf(t) = {} THEN Frac(0, 1)
        ELSE Frac(Cardinality({st \in SentencesOf(t) : IsUncertain(Sentence(t, st))}),
                  Cardinality(SentencesOf(t)))

\* C22: the hallucination_frequency that evaluate records for a response is the
\* number of its sentences that contain an uncertainty marker divided by the number
\* of its sentences, and 0 when it has no sentence; one sentence with a marker and
\* a final period scores 1.0.
C22_HallucinationIsMarkedFraction ==
    ret.op = "evaluate" =>
        ret.value.scores.hallucination_frequency = MarkedFraction(ret.response)


(***************************************************************************)
(* The construction of an AIOperatorOS                                     *)
(***************************************************************************)
ModeArgs == DEPLOYMENT_MODES \cup {"invalid_mode"}
PolicyArgs == POLICIES \cup {"lifo"}

\* DataLayer.__init__ and AIOperatorOS.__init__ raise ValueError for a mode that is
\* not in DEPLOYMENT_MODES.
ModeRaises(deployment_mode_arg) == deployment_mode_arg \notin DEPLOYMENT_MODES

\* Scheduler.__init__ raises ValueError for an unknown policy.
PolicyRaises(scheduler_policy) == scheduler_policy \notin POLICIES

\* A constructor that validates the mode only.
OsRaisesOnModeOnly(deployment_mode_arg, scheduler_policy) ==
    ModeRaises(deployment_mode_arg)

\* AIOperatorOS.__init__ raises when its own check of the mode fails or when the
\* Scheduler that KernelLayer constructs rejects the policy.
OsRaises(deployment_mode_arg, scheduler_policy) ==
    ModeRaises(deployment_mode_arg) \/ PolicyRaises(scheduler_policy)

\* The caller's name is bound to no object: __init__ raised.
NoKernel ==
    /\ deployment_mode = None
    /\ policy = None
    /\ window_size = None
    /\ h_dispatched = NoTask
    /\ queue = <<>> /\ completed = <<>> /\ tasks = <<>>
    /\ sessions = <<>>
    /\ h_pushed = [sid \in SessionIds \cup AGENT_REGISTRY |-> <<>>]
    /\ tables = <<>> /\ vector_records = <<>> /\ h_written = <<>>
    /\ InitLLM /\ InitAccess /\ InitEvaluation

\* os = AIOperatorOS(deployment_mode, scheduler_policy, context_window)
InitConstruct ==
    \E deployment_mode_arg \in ModeArgs, scheduler_policy \in PolicyArgs,
       context_window \in KernelWindows :
        /\ pc = NoCalls
        /\ ret = [op |-> "construct", mode |-> deployment_mode_arg,
                  policy |-> scheduler_policy, window |-> context_window,
                  raised |-> OsRaises(deployment_mode_arg, scheduler_policy)]
        /\ IF OsRaises(deployment_mode_arg, scheduler_policy)
           THEN NoKernel
           ELSE /\ deployment_mode = deployment_mode_arg
                /\ InitScheduler({scheduler_policy})
                /\ InitContext({context_window})
                /\ InitKernelMemory /\ InitLLM /\ InitKernelAccess /\ InitEvaluation

\* Only a constructed kernel is used.
ConstructedSubmit == deployment_mode # None /\ KernelSubmit

SpecConstruct == InitConstruct /\ [][ConstructedSubmit]_vars

\* What the construction that ret reports left behind.
ConstructionOutcome ==
    ret.op = "construct" =>
        /\ ret.raised <=>
              (\/ ret.mode \notin {"local", "remote_kernel", "personal_remote", "hybrid"}
               \/ ret.policy \notin {"fifo", "priority", "round_robin"})
        /\ IF ret.raised
           THEN /\ deployment_mode = None /\ policy = None /\ window_size = None
                /\ roles = <<>> /\ principals = <<>> /\ tables = <<>>
           ELSE /\ deployment_mode = ret.mode
                /\ policy = ret.policy
                /\ window_size = ret.window
                /\ queue = <<>> /\ completed = <<>>
                /\ DOMAIN roles = {"admin", "researcher", "operator", "read_only"}

\* C23: constructing AIOperatorOS with a deployment mode outside {local,
\* remote_kernel, personal_remote, hybrid} or a scheduler policy outside {fifo,
\* priority, round_robin} raises and yields no kernel; every valid combination
\* constructs, and the scheduler keeps the requested policy from then on.
C23_InvalidConfigurationFails ==
    /\ []ConstructionOutcome
    /\ []((deployment_mode = None) <=> (policy = None))
    /\ [][policy' = policy /\ deployment_mode' = deployment_mode /\ policy # None]_vars

\* A construction with a valid mode and an unknown policy: it raised, and there is
\* no kernel.
C23_Witness ==
    /\ ret.op = "construct"
    /\ ret.mode = "hybrid"
    /\ ret.policy = "lifo"
    /\ ret.raised
    /\ policy = None
    /\ deployment_mode = None


\* C24: a newly constructed kernel has exactly the four built-in roles: admin with
\* the full tool set, researcher with the analysis, search and completion tools,
\* operator with llm_complete and workflow_run only, read_only with policy_analyze
\* only.
C24_BuiltInRoles ==
    (ret.op = "construct" /\ ~ret.raised) =>
        /\ DOMAIN roles = {"admin", "researcher", "operator", "read_only"}
        /\ roles["admin"] = {"policy_analyze", "batch_analyze", "vector_search",
                             "file_read", "file_write", "llm_complete", "workflow_run"}
        /\ roles["researcher"] = {"policy_analyze", "batch_analyze", "vector_search",
                                  "llm_complete"}
        /\ roles["operator"] = {"llm_complete", "workflow_run"}
        /\ roles["read_only"] = {"policy_analyze"}

\* C25: for any two distinct (namespace, key) pairs, remember_long on one pair
\* leaves what recall_long returns for the other pair as it was, whatever the
\* strings are.
C25_NamespacesPartitionMemory ==
    [][ret'.op = "remember_long" =>
          \A namespace \in Strs, key \in Strs, default \in Defaults :
              <<namespace, key>> # <<ret'.namespace, ret'.key>> =>
                  RecallLongValue(namespace, key, default)' =
                      RecallLongValue(namespace, key, default)]_vars


\* No task is both queued and completed.
QueuedNotCompleted ==
    \A i \in 1..Len(queue) :
        /\ queue[i] \notin Range(completed)
        /\ tasks[queue[i]].status # "completed"

\* C26: whatever the queue held before and whatever the policy, after run returns
\* the task it submitted is no longer queued and the task it recorded in the
\* completed log is the one next_task removed; in every reachable state no task is
\* both in the queue and in the completed log.
C26_RunCompletesDequeuedTask ==
    /\ []QueuedNotCompleted
    /\ [][(ret'.op = "run" /\ Len(tasks') = Len(tasks) + 1 /\ ~ret'.raised) =>
            /\ ret'.task \notin Range(queue')
            /\ completed'[Len(completed')] = h_dispatched']_vars

\* Every task was submitted by a run call.
OnlyRunCalls == \A t \in 1..Len(tasks) : tasks[t].agent_name \in RunAgents

\* C27: after any sequence of run calls, those that raise and those that name an
\* unknown agent included, every task submitted is in the queue or in the completed
\* log: number submitted = queue_length + number of distinct completed tasks.
C27_NoTaskIsLost ==
    OnlyRunCalls =>
        /\ Len(tasks) = Len(queue) + Cardinality(Range(completed))
        /\ \A t \in 1..Len(tasks) : t \in Range(queue) \/ t \in Range(completed)

(***************************************************************************)
(* Agent.run, one statement at a time                                      *)
(***************************************************************************)
MaxAgentRuns == 2
StepAgents == {"government_compliance_agent", "music_production_agent"}

\* The frame of the Agent.run call in progress.
RunFrame(at, agent_name, prompt, response_text) ==
    [at |-> at, agent |-> agent_name, prompt |-> prompt, response |-> response_text]

\* The run calls started so far: each makes one access check.
RunsStarted == Len(audit_log)

\* tool = self._required_tool(); if not check_access(self.name, tool): return the
\* error dict.
AgentRunCheck ==
    \E agent_name \in StepAgents, prompt \in RunPrompts :
        /\ pc = NoCalls
        /\ RunsStarted < MaxAgentRuns
        /\ AccessCheckAccess(agent_name, RequiredTool(agent_name))
        /\ IF Allowed(agent_name, RequiredTool(agent_name))
           THEN /\ pc' = <<RunFrame("push_user", agent_name, prompt, <<>>)>>
                /\ UNCHANGED ret
           ELSE /\ pc' = NoCalls
                /\ ret' = [op |-> "agent_run", agent |-> agent_name, raised |-> FALSE,
                           result |-> [agent |-> agent_name,
                                       error |-> <<"Access denied", agent_name,
                                                   RequiredTool(agent_name)>>]]
        /\ UNCHANGED <<schedVars, ctxVars, memVars, llmVars, evalVars>>

\* self.kernel.context.push(self.session_id, 'user', prompt)
AgentRunPushUser ==
    /\ pc # NoCalls /\ pc[1].at = "push_user"
    /\ ContextPush(pc[1].agent, "user", pc[1].prompt)
    /\ pc' = <<[pc[1] EXCEPT !.at = "handle"]>>
    /\ UNCHANGED <<schedVars, memVars, llmVars, accessVars, evalVars, ret>>

\* result = self._handle(prompt); response_text = result.get('response', ''): the
\* provider call, which may raise.
AgentRunHandle ==
    /\ pc # NoCalls /\ pc[1].at = "handle"
    /\ LET llm_result == CompleteOutcome(pc[1].prompt, None)
       IN  IF llm_result.raised
           THEN /\ pc' = NoCalls
                /\ ret' = [op |-> "agent_run", agent |-> pc[1].agent, raised |-> TRUE,
                           result |-> [agent |-> pc[1].agent]]
           ELSE /\ pc' = <<[pc[1] EXCEPT !.at = "push_assistant",
                                         !.response = llm_result.value.response]>>
                /\ UNCHANGED ret
    /\ UNCHANGED <<schedVars, ctxVars, memVars, llmVars, accessVars, evalVars>>

\* self.kernel.context.push(self.session_id, 'assistant', response_text)
AgentRunPushAssistant ==
    /\ pc # NoCalls /\ pc[1].at = "push_assistant"
    /\ ContextPush(pc[1].agent, "assistant", pc[1].response)
    /\ pc' = <<[pc[1] EXCEPT !.at = "evaluate"]>>
    /\ UNCHANGED <<schedVars, memVars, llmVars, accessVars, evalVars, ret>>

\* self.kernel.evaluation.evaluate(self.name, prompt, response_text); return result
AgentRunEvaluate ==
    /\ pc # NoCalls /\ pc[1].at = "evaluate"
    /\ EvaluationEvaluate(pc[1].agent, pc[1].prompt, pc[1].response, None)
    /\ pc' = NoCalls
    /\ ret' = [op |-> "agent_run", agent |-> pc[1].agent, raised |-> FALSE,
               result |-> [agent |-> pc[1].agent, response |-> pc[1].response]]
    /\ UNCHANGED <<schedVars, ctxVars, memVars, llmVars, accessVars>>

\* Between two runs the caller may register a provider or reassign a role.
BetweenRuns == pc = NoCalls /\ (RegisterLLMProvider \/ KernelAssignRole)

NextAgentRun ==
    \/ AgentRunCheck \/ AgentRunPushUser \/ AgentRunHandle
    \/ AgentRunPushAssistant \/ AgentRunEvaluate \/ BetweenRuns

SpecAgentRun == InitKernel /\ [][NextAgentRun]_vars

\* How many entries of the role the session of the agent was pushed.
PushesOf(agent_name, role) ==
    IF agent_name \in DOMAIN h_pushed
    THEN Len(SelectSeq(h_pushed[agent_name], LAMBDA e : e.role = role))
    ELSE 0

\* How many access checks of the agent were allowed.
AllowedChecksOf(agent_name) ==
    Len(SelectSeq(audit_log, LAMBDA e : e.principal = agent_name /\ e.allowed))

\* C30: within a permitted agent run the services act in the order access check,
\* push of the 'user' entry, provider call, evaluation, push of the 'assistant'
\* entry: at every moment an agent has at least as many allowed checks as 'user'
\* entries, at least as many 'user' entries as evaluation records, and at least as
\* many evaluation records as 'assistant' entries, and the provider is called with
\* the 'user' entry of the turn pushed last.
C30_EvaluationBeforeAssistantPush ==
    /\ \A a \in StepAgents :
        /\ AllowedChecksOf(a) >= PushesOf(a, "user")
        /\ PushesOf(a, "user") >= Len(RecordsOf(a))
        /\ Len(RecordsOf(a)) >= PushesOf(a, "assistant")
    /\ (pc # NoCalls /\ pc[1].at = "handle") =>
        /\ PushesOf(pc[1].agent, "user") = AllowedChecksOf(pc[1].agent)
        /\ h_pushed[pc[1].agent][Len(h_pushed[pc[1].agent])]
               = ContextEntry("user", pc[1].prompt)

(***************************************************************************)
(* WorkflowDesigner                                                        *)
(***************************************************************************)
MaxWorkflowTasks == 3
WORKFLOWS_NAMESPACE == <<"w", "o", "r", "k", "f", "l", "o", "w", "s">>

FormatRaised == [raised |-> TRUE, value |-> <<>>]

\* template.format(**variables), from index i of the template: a field {name} is
\* replaced by variables[name]; a name that was not supplied raises KeyError, an
\* unmatched brace raises ValueError.
RECURSIVE FormatFrom(_, _, _)
FormatFrom(template, i, variables) ==
    IF i > Len(template) THEN [raised |-> FALSE, value |-> <<>>]
    ELSE IF template[i] = "{"
    THEN LET closes == {j \in (i + 1)..Len(template) : template[j] = "}"}
         IN  IF closes = {} THEN FormatRaised
             ELSE LET j == CHOOSE c \in closes : \A d \in closes : c <= d
                      name == SubSeq(template, i + 1, j - 1)
                      rest == FormatFrom(template, j + 1, variables)
                  IN  IF name \notin DOMAIN variables \/ rest.raised
                      THEN FormatRaised
                      ELSE [raised |-> FALSE, value |-> variables[name] \o rest.value]
    ELSE IF template[i] = "}" THEN FormatRaised
    ELSE LET rest == FormatFrom(template, i + 1, variables)
         IN  IF rest.raised THEN FormatRaised
             ELSE [raised |-> FALSE, value |-> <<template[i]>> \o rest.value]

Format(template, variables) == FormatFrom(template, 1, variables)

\* variables = variables or {}; the argument is <<>> for None, <<dict>> otherwise.
VariablesOrEmpty(variables) == IF variables = <<>> THEN <<>> ELSE variables[1]

\* The workflow dict of define_workflow (created_at, which nothing reads, left out).
Workflow(workflow_name, steps) == [name |-> workflow_name, steps |-> steps]

\* define_workflow: remember_long('workflows', workflow_name, workflow)
DefineWorkflowStored(workflow_name, steps) ==
    MemoryRememberLong(WORKFLOWS_NAMESPACE, workflow_name,
                       Workflow(workflow_name, steps))

\* get_workflow(workflow_name) is not None
HasWorkflow(workflow_name) ==
    StoreHas(LONG_TERM_MEMORY, CompositeKey(WORKFLOWS_NAMESPACE, workflow_name))

\* get_workflow(workflow_name), when it is not None
get_workflow(workflow_name) ==
    StoreGet(LONG_TERM_MEMORY, CompositeKey(WORKFLOWS_NAMESPACE, workflow_name)).value

\* The loop of schedule_workflow from step i (0-based): the prompt is formatted,
\* then the step is submitted; a format that raises ends the loop with the
\* earlier steps submitted. The uuid of the task id is the task's heap reference.
RECURSIVE SubmittedSteps(_, _, _, _, _, _)
SubmittedSteps(q, heap, workflow_name, steps, i, variables) ==
    IF i = Len(steps) THEN [raised |-> FALSE, queue |-> q, tasks |-> heap]
    ELSE LET prompt == Format(steps[i + 1].prompt, variables)
         IN  IF prompt.raised THEN [raised |-> TRUE, queue |-> q, tasks |-> heap]
             ELSE SubmittedSteps(
                      SubmittedQueue(q, heap),
                      SubmittedTasks(heap, <<workflow_name, i, Len(heap) + 1>>,
                                     steps[i + 1].agent,
                                     [prompt |-> prompt.value, step |-> i],
                                     Len(steps) - i),
                      workflow_name, steps, i + 1, variables)

T_FIELD == <<"{", "x", "}">>
WorkflowNames == {<<"w">>, <<"v">>}
StepLists == {<<>>,
              <<[agent |-> "research_agent", prompt |-> T_HI]>>,
              <<[agent |-> "research_agent", prompt |-> T_FIELD],
                [agent |-> "government_compliance_agent", prompt |-> T_HI]>>,
              <<[agent |-> "research_agent", prompt |-> T_HI],
                [agent |-> "government_compliance_agent", prompt |-> T_FIELD]>>}
VariableArgs == {<<>>, <<(<<"x">> :> T_OK)>>}

\* AIOperatorOS() with its default arguments.
InitDefaultKernel ==
    /\ InitScheduler({DEFAULT_POLICY})
    /\ InitContext({DEFAULT_WINDOW})
    /\ InitKernelMemory /\ InitLLM /\ InitKernelAccess /\ InitEvaluation
    /\ deployment_mode = DEFAULT_MODE
    /\ pc = NoCalls
    /\ ret = [op |-> "init"]

DefineWorkflow ==
    \E workflow_name \in WorkflowNames, steps \in StepLists :
        /\ DefineWorkflowStored(workflow_name, steps)
        /\ UNCHANGED pc
        /\ ret' = [op |-> "define_workflow", value |-> Workflow(workflow_name, steps)]
        /\ UNCHANGED <<schedVars, ctxVars, llmVars, accessVars, evalVars>>

\* schedule_workflow(workflow_name, variables): KeyError for a name that
\* get_workflow does not know, else the loop over the steps.
ScheduleWorkflow ==
    \E workflow_name \in WorkflowNames, variables \in VariableArgs :
        /\ IF ~HasWorkflow(workflow_name)
           THEN /\ UNCHANGED schedVars
                /\ ret' = [op |-> "schedule_workflow", name |-> workflow_name,
                           variables |-> variables, raised |-> TRUE, value |-> <<>>]
           ELSE LET steps == get_workflow(workflow_name).steps
                    out == SubmittedSteps(queue, tasks, workflow_name, steps, 0,
                                          VariablesOrEmpty(variables))
                IN  /\ Len(tasks) + Len(steps) <= MaxWorkflowTasks
                    /\ queue' = out.queue
                    /\ tasks' = out.tasks
                    /\ UNCHANGED <<policy, completed, h_dispatched>>
                    /\ ret' = [op |-> "schedule_workflow", name |-> workflow_name,
                               variables |-> variables, raised |-> out.raised,
                               value |-> IF out.raised THEN <<>>
                                         ELSE SubSeq(out.queue, Len(queue) + 1,
                                                     Len(out.queue))]
        /\ UNCHANGED pc
        /\ UNCHANGED <<ctxVars, memVars, llmVars, accessVars, evalVars>>

NextWorkflow == DefineWorkflow \/ ScheduleWorkflow

SpecWorkflow == InitDefaultKernel /\ [][NextWorkflow]_vars

\* What a schedule_workflow call that returned must have submitted: one task per
\* step, appended in step order, step i (0-based) with priority n - i.
OneTaskPerStep ==
    LET steps == get_workflow(ret'.name).steps
        n == Len(steps)
    IN  /\ Len(tasks') = Len(tasks) + n
        /\ SubSeq(tasks', 1, Len(tasks)) = tasks
        /\ queue' = queue \o [i \in 1..n |-> Len(tasks) + i]
        /\ ret'.value = [i \in 1..n |-> Len(tasks) + i]
        /\ \A i \in 1..n :
            /\ tasks'[Len(tasks) + i].agent_name = steps[i].agent
            /\ tasks'[Len(tasks) + i].payload.step = i - 1
            /\ tasks'[Len(tasks) + i].priority = n - (i - 1)
            /\ tasks'[Len(tasks) + i].status = "queued"

\* C29: schedule_workflow is all-or-nothing on the queue: a call that raises
\* (unknown workflow, or a template field that was not supplied) leaves the queue
\* as it was, and a call that returns has submitted one task per step, in step
\* order, step i with priority (number of steps - i).
C29_ScheduleIsAllOrNothing ==
    [][ret'.op = "schedule_workflow" =>
          IF ret'.raised THEN queue' = queue /\ tasks' = tasks
          ELSE OneTaskPerStep]_vars

(***************************************************************************)
(* Scheduler, called from several threads                                  *)
(***************************************************************************)
\* The Scheduler takes no lock. A step of a caller is one access to self._queue
\* (the attribute load together with the deque operation applied to it, or the
\* assignment to the attribute); the steps of the callers interleave freely.
NumCallers == 2
MaxConcurrentTasks == 2
MaxDequeues == 3
Callers == 1..NumCallers

\* The frame of a caller: where it stands in next_task, the list that sorted()
\* returned to it, the tasks next_task has returned to it, and how many of those
\* it has passed to mark_done.
IdleFrame == [at |-> "idle", sorted |-> <<>>, got |-> <<>>, marked |-> 0]

InitConcurrent ==
    /\ InitScheduler(POLICIES)
    /\ InitContext({DEFAULT_WINDOW})
    /\ InitMemory /\ InitLLM /\ InitAccess /\ InitEvaluation
    /\ deployment_mode = DEFAULT_MODE
    /\ pc = [c \in Callers |-> IdleFrame]
    /\ ret = [op |-> "init"]

\* The next_task calls that have returned a task or are past the emptiness check.
RECURSIVE DequeuesOf(_)
DequeuesOf(frames) ==
    IF frames = <<>> THEN 0
    ELSE Len(Head(frames).got) + (IF Head(frames).at = "idle" THEN 0 ELSE 1)
         + DequeuesOf(Tail(frames))

otherVars == <<ctxVars, memVars, llmVars, accessVars, evalVars>>

\* submit: the task dict is built and self._queue.append(task) appends it.
CallerSubmit(c) ==
    \E priority \in Priorities :
        /\ pc[c].at = "idle"
        /\ Len(tasks) < MaxConcurrentTasks
        /\ SchedulerSubmit(Len(tasks) + 1, "agent_a", "payload1", priority)
        /\ ret' = [op |-> "submit", caller |-> c, value |-> Len(tasks) + 1]
        /\ UNCHANGED <<pc, otherVars>>

\* next_task: if not self._queue: return None
CallerNextTaskCheck(c) ==
    /\ pc[c].at = "idle"
    /\ Len(tasks) > 0
    /\ DequeuesOf(pc) < MaxDequeues
    /\ IF queue = <<>>
       THEN /\ ret' = [op |-> "next_task", caller |-> c, raised |-> FALSE,
                       value |-> NoTask]
            /\ UNCHANGED pc
       ELSE /\ pc' = [pc EXCEPT ![c].at = IF policy = "priority" THEN "sort"
                                           ELSE "popleft"]
            /\ UNCHANGED ret
    /\ UNCHANGED <<schedVars, otherVars>>

\* next_task under 'priority': sorted(self._queue, ...) reads the queue into a list.
CallerNextTaskSort(c) ==
    /\ pc[c].at = "sort"
    /\ pc' = [pc EXCEPT ![c].at = "assign",
                        ![c].sorted = SortedByPriority(queue, tasks)]
    /\ UNCHANGED <<schedVars, otherVars, ret>>

\* next_task under 'priority': self._queue = deque(<the sorted list>)
CallerNextTaskAssign(c) ==
    /\ pc[c].at = "assign"
    /\ queue' = pc[c].sorted
    /\ pc' = [pc EXCEPT ![c].at = "popleft", ![c].sorted = <<>>]
    /\ UNCHANGED <<policy, completed, tasks, h_dispatched, otherVars, ret>>

\* next_task: return self._queue.popleft(), which raises IndexError on a deque
\* that another caller has emptied since the check.
CallerNextTaskPopleft(c) ==
    /\ pc[c].at = "popleft"
    /\ IF queue = <<>>
       THEN /\ pc' = [pc EXCEPT ![c].at = "idle"]
            /\ ret' = [op |-> "next_task", caller |-> c, raised |-> TRUE,
                       value |-> NoTask]
            /\ UNCHANGED schedVars
       ELSE /\ queue' = Tail(queue)
            /\ h_dispatched' = Head(queue)
            /\ pc' = [pc EXCEPT ![c].at = "idle", ![c].got = Append(@, Head(queue))]
            /\ ret' = [op |-> "next_task", caller |-> c, raised |-> FALSE,
                       value |-> Head(queue)]
            /\ UNCHANGED <<policy, completed, tasks>>
    /\ UNCHANGED otherVars

\* mark_done of the next task that next_task returned to the caller.
CallerMarkDone(c) ==
    /\ pc[c].at = "idle"
    /\ pc[c].marked < Len(pc[c].got)
    /\ SchedulerMarkDone(pc[c].got[pc[c].marked + 1], "result1")
    /\ pc' = [pc EXCEPT ![c].marked = @ + 1]
    /\ ret' = [op |-> "mark_done", caller |-> c,
               task |-> pc[c].got[pc[c].marked + 1]]
    /\ UNCHANGED otherVars

NextConcurrent ==
    \E c \in Callers :
        \/ CallerSubmit(c)
        \/ CallerNextTaskCheck(c)
        \/ CallerNextTaskSort(c)
        \/ CallerNextTaskAssign(c)
        \/ CallerNextTaskPopleft(c)
        \/ CallerMarkDone(c)

SpecConcurrent == InitConcurrent /\ [][NextConcurrent]_vars

\* The tasks that next_task has returned to caller c.
ReturnedTo(c) == Range(pc[c].got)

\* C28: with the steps of submit, next_task and mark_done of several callers
\* interleaving, under any policy, no task is returned by next_task to two callers
\* (nor twice to one), and every submitted task is in the queue unless next_task
\* has returned it.
C28_ConcurrentDispatchIsSafe ==
    /\ \A c1, c2 \in Callers : c1 # c2 => ReturnedTo(c1) \cap ReturnedTo(c2) = {}
    /\ \A c \in Callers : Cardinality(ReturnedTo(c)) = Len(pc[c].got)
    /\ \A t \in 1..Len(tasks) :
        t \in Range(queue) \/ \E c \in Callers : t \in ReturnedTo(c)

=============================================================================
